---- MODULE Spec2Model ----
(***************************************************************************)
(* The evidence pipeline of pharmgraph-auditor (src/cov_audit): the batch  *)
(* runner of run_audit_pipeline.py with the stages it calls                *)
(*   p1 TaskGenerator  -> p2 QueryGenerator -> dedupe -> p3 QueryExecutor  *)
(*   -> p3.1 EvidencePreprocessor -> p3.2 ContextualInstructionRetriever   *)
(*   -> p4 LLMAnalyzer                                                     *)
(* and the two store clients (MySQLHandler, Neo4jHandler) and the engine   *)
(* client (LLMClient) they use.                                            *)
(*                                                                         *)
(* Representation of Python values:                                        *)
(*  - a dict is a function whose domain is the set of its keys; a missing  *)
(*    key is a key outside the domain (EmptyDict is {});                   *)
(*  - a dict whose iteration order matters is a sequence of [k, v]         *)
(*    entries with pairwise distinct keys, in insertion order;             *)
(*  - a value of several Python types is a record with one field that      *)
(*    names the type: [str |-> s] / [list |-> seq], [rows |-> seq] /       *)
(*    [error |-> msg], [json |-> value] / [text |-> raw];                  *)
(*  - a drug name is a sequence of characters; a statement text built by   *)
(*    an f-string is the record of its literal prefix, the interpolated    *)
(*    drug name and its literal suffix;                                    *)
(*  - a nullable column is a sequence of length <= 1 (<<>> is NULL/None).  *)
(*  - the Chinese literals of the source are written in ASCII (the tools   *)
(*    read ASCII only); the comment at each gives the source literal's     *)
(*    place.                                                               *)
(***************************************************************************)
EXTENDS Integers, Sequences, FiniteSets, TLC

\* ---------------------------------------------------------------- bounds
\* number of cases in the input file of one batch run
NumCases == 2
\* longest task list the engine returns for a case
MaxTasks == 2
\* longest plan handed to execute_plan by a direct caller (SpecExec)
MaxPlanLen == 3

\* ------------------------------------------------------- Python helpers
EmptyDict == [k \in {} |-> TRUE]

\* dict.get(k, default)
Get(d, k, default) == IF k \in DOMAIN d THEN d[k] ELSE default

\* ordered dict: sequence of [k, v], distinct keys, insertion order
OdKeys(d) == { d[n].k : n \in DOMAIN d }

OdHas(d, key) == key \in OdKeys(d)

OdGet(d, key, default) ==
    IF OdHas(d, key)
    THEN (d[CHOOSE n \in DOMAIN d : d[n].k = key]).v
    ELSE default

\* d[key] = value: an existing key keeps its position
OdSet(d, key, value) ==
    IF OdHas(d, key)
    THEN [n \in DOMAIN d |-> IF d[n].k = key THEN [k |-> key, v |-> value] ELSE d[n]]
    ELSE Append(d, [k |-> key, v |-> value])

OdValues(d) == [n \in DOMAIN d |-> d[n].v]

\* all sequences over S of length <= n
SeqsUpTo(S, n) == UNION { [1..m -> S] : m \in 0..n }

\* ------------------------------------------------------------ universes
\* drug names (character sequences)
DrugA == <<"a">>
DrugB == <<"b">>

\* str | list values of a task's riskType
Str(s) == [str |-> s]
List(l) == [list |-> l]

\* Substring tests of p2_query_generator.py:58 and p3_1_preprocessor.py:18
\* on the risk tokens of the model: marker `in` token.
MarkerIn(marker, token) ==
    \/ marker = "DOSAGE" /\ token \in {"DOSAGE_OVER"}
    \/ marker = "FREQUENCY" /\ token \in {"FREQUENCY_ERROR"}
    \/ marker = "ROUTE" /\ token \in {"ROUTE_ERROR"}
    \/ marker = "DOSE_ADJUSTMENT" /\ token \in {"DOSE_ADJUSTMENT_MISSED"}

\* ------------------------------------------------------ p2 QueryGenerator
EmptyText == [pre |-> "", drug |-> <<>>, post |-> ""]

Sql(text) == [lang |-> "sql", query |-> text]
Cypher(text) == [lang |-> "cypher", query |-> text]

\* `not x` for an optional string / list parameter
Falsy(d, k) == k \notin DOMAIN d \/ d[k] = <<>>

\* the literals of the statements (p2_query_generator.py:67-149)
CypherPre == "MATCH (d:Drug {canonical_name: '"
IndicationPost ==
    "'})-[r:INDICATED_FOR]->(dis:Disease) RETURN dis.name AS approved_indication, r.source_text AS evidence"
InteractionPre == "SELECT * FROM interaction_details WHERE precipitant_drug_name = '"
ContraPre == "SELECT * FROM contraindication_rules WHERE drug_canonical_name = '"
DosagePre == "SELECT * FROM dosage_rules WHERE drug_canonical_name = '"
AllergyCypherPost ==
    "'})-[r:CONTAINS]->(s:Substance) RETURN s.name AS substance_name, r.source_text AS evidence, r.role AS role"
AllergySqlPre ==
    "SELECT DISTINCT source_text FROM allergy_rules WHERE drug_canonical_name = '"

GenerateIndicationQuery(params) ==
    IF Falsy(params, "drug_name") THEN <<>>
    ELSE << Cypher([pre |-> CypherPre, drug |-> params.drug_name,
                    post |-> IndicationPost]) >>

InteractionText(drug) ==
    [pre |-> InteractionPre, drug |-> drug, post |-> "';"]

\* the two statements in the other order
GenerateInteractionQuery_Swapped(params) ==
    IF Falsy(params, "drug_pair") \/ Len(params.drug_pair) # 2 THEN <<>>
    ELSE << Sql(InteractionText(params.drug_pair[2])),
            Sql(InteractionText(params.drug_pair[1])) >>

GenerateInteractionQuery(params) ==
    IF Falsy(params, "drug_pair") \/ Len(params.drug_pair) # 2 THEN <<>>
    ELSE << Sql(InteractionText(params.drug_pair[1])),
            Sql(InteractionText(params.drug_pair[2])) >>

GenerateAllergyQueries(params) ==
    IF Falsy(params, "drug_name") THEN <<>>
    ELSE << Cypher([pre |-> CypherPre, drug |-> params.drug_name,
                    post |-> AllergyCypherPost]),
            Sql([pre |-> AllergySqlPre, drug |-> params.drug_name, post |-> "'"]) >>

\* base_query followed by a clause
ContraText(drug, clause) ==
    [pre |-> ContraPre, drug |-> drug, post |-> clause]

\* truthiness of patient.get(k): a string, a dict, and for age and weight
\* a number [num |-> n], an object [obj |-> dict] or a string [str |-> s]
TruthyStr(d, k) == k \in DOMAIN d /\ d[k] # ""

TruthyDict(d, k) == k \in DOMAIN d /\ d[k] # EmptyDict

TruthyNum(d, k) ==
    /\ k \in DOMAIN d
    /\ IF "num" \in DOMAIN d[k] THEN d[k].num # 0
       ELSE IF "obj" \in DOMAIN d[k] THEN d[k].obj # EmptyDict
       ELSE d[k].str # ""

\* the literals of p2_query_generator.py:106-112 in ASCII
LevelNone == "none"
NotPregnant == {"not_pregnant", "not_applicable", "not_applicable_male_only"}
NotLactating == {"not_lactating", "not_applicable", "not_applicable_male_only"}

\* {q['query']: q for q in queries}.values()
RECURSIVE ByQuery(_)
ByQuery(qs) ==
    IF qs = <<>> THEN <<>>
    ELSE LET front == SubSeq(qs, 1, Len(qs) - 1)
             q == qs[Len(qs)]
         IN OdSet(ByQuery(front), q.query, q)

GenerateContraindicationQueries(params) ==
    IF Falsy(params, "drug_name") THEN <<>>
    ELSE LET drug == params.drug_name
             patient == Get(params, "patient_info", EmptyDict)
             organ == Get(patient, "organ_function", EmptyDict)
             Clause(cond, clause) ==
                 IF cond THEN << Sql(ContraText(drug, clause)) >> ELSE <<>>
         IN IF patient = EmptyDict
            THEN << Sql(ContraText(drug, "'")) >>
            ELSE OdValues(ByQuery(
                   Clause(TruthyNum(patient, "age"),
                          "' AND (age_min_years IS NOT NULL OR age_max_years IS NOT NULL);")
                \o Clause(TruthyStr(patient, "gender"), "' AND sex IS NOT NULL;")
                \o Clause(TruthyNum(patient, "weight"),
                          "' AND weight_min_kg IS NOT NULL OR weight_max_kg IS NOT NULL;")
                \o Clause(TruthyDict(patient, "organ_function")
                            /\ Get(organ, "renal_impairment", "") # LevelNone,
                          "' AND renal_impairment IS NOT NULL;")
                \o Clause(TruthyDict(patient, "organ_function")
                            /\ Get(organ, "hepatic_impairment", "") # LevelNone,
                          "' AND hepatic_impairment IS NOT NULL;")
                \o Clause(TruthyStr(patient, "pregnancy_status")
                            /\ patient.pregnancy_status \notin NotPregnant,
                          "' AND pregnancy_status IS NOT NULL;")
                \o Clause(TruthyStr(patient, "lactation_status")
                            /\ patient.lactation_status \notin NotLactating,
                          "' AND lactation_status IS NOT NULL;")
                \o Clause(TRUE, "' AND other_conditions IS NOT NULL;")))

GenerateDosageQueriesWithoutLlm(params) ==
    IF Falsy(params, "drug_name") THEN <<>>
    ELSE << Sql([pre |-> DosagePre, drug |-> params.drug_name, post |-> "';"]) >>

\* a normalisation that also consumes the first token of a list
NormalizeRiskType_Pop(task) ==
    IF "riskType" \notin DOMAIN task THEN task
    ELSE IF "str" \in DOMAIN task.riskType
    THEN [task EXCEPT !.riskType = List(<< task.riskType.str >>)]
    ELSE IF Len(task.riskType.list) > 0
    THEN [task EXCEPT !.riskType = List(Tail(task.riskType.list))]
    ELSE task

\* the task object after lines 34-35: a scalar riskType becomes a list
NormalizeRiskType(task) ==
    IF "riskType" \in DOMAIN task /\ "str" \in DOMAIN task.riskType
    THEN [task EXCEPT !.riskType = List(<< task.riskType.str >>)]
    ELSE task

\* the value generate_queries_for_task returns
GenerateQueriesForTask(task) ==
    LET t == NormalizeRiskType(task)
        risk_type == Get(t, "riskType", List(<<>>)).list
        params == Get(t, "params", EmptyDict)
    IN IF risk_type = <<>> THEN <<>>
       ELSE LET main_risk_type == risk_type[1]
            IN CASE main_risk_type = "INDICATION_MISMATCH" -> GenerateIndicationQuery(params)
                 [] main_risk_type = "INTERACTION_DRUG_DRUG" -> GenerateInteractionQuery(params)
                 [] main_risk_type = "ALLERGY_CONFLICT" -> GenerateAllergyQueries(params)
                 [] main_risk_type = "CONTRAINDICATION_CONDITION" ->
                        GenerateContraindicationQueries(params)
                 [] OTHER ->
                        IF \E n \in DOMAIN risk_type :
                              \/ MarkerIn("DOSAGE", risk_type[n])
                              \/ MarkerIn("FREQUENCY", risk_type[n])
                              \/ MarkerIn("ROUTE", risk_type[n])
                              \/ MarkerIn("DOSE_ADJUSTMENT", risk_type[n])
                        THEN GenerateDosageQueriesWithoutLlm(params)
                        ELSE <<>>

\* ------------------------------------------------------ plan deduplicator
\* the plan handed on as it was collected
UniqueQueries_Keep(all_queries) == all_queries

\* list({q['query']: q for q in all_queries}.values())
UniqueQueries(all_queries) == OdValues(ByQuery(all_queries))

\* ------------------------------------------------------------ the stores
\* What the store does with one statement: it returns rows, fails with the
\* client library's error (mysql.connector.Error, a Neo4j driver error), or
\* the call fails with any other exception.
StoreError == [store_error |-> "store error"]
OtherError == [exception |-> "other exception"]

\* a row of each table / graph pattern the planner's statements read
DosageRuleRow ==
    [age_min_years |-> <<>>, age_max_years |-> <<>>, renal_impairment |-> <<>>,
     hepatic_impairment |-> <<>>, other_conditions |-> <<>>,
     notes |-> << <<1>> >>, source_text |-> << <<2>> >>]

InteractionRow(drug) ==
    [precipitant_drug_name |-> << drug >>,
     affected_target_name |-> << IF drug = DrugA THEN DrugB ELSE DrugA >>,
     affected_target_examples |-> <<>>, source_text |-> << <<3>> >>]

AllergyRuleRow == [source_text |-> << <<4>> >>]

ComponentRow ==
    [substance_name |-> << <<5>> >>, evidence |-> << <<6>> >>,
     role |-> << "active ingredient" >>]

IndicationRow == [approved_indication |-> << <<7>> >>, evidence |-> << <<8>> >>]

ContraindicationRow == [source_text |-> << <<9>> >>]

OtherRow == [source_text |-> << <<1>> >>]

RowFor(text) ==
    CASE text.pre = DosagePre -> DosageRuleRow
      [] text.pre = InteractionPre -> InteractionRow(text.drug)
      [] text.pre = AllergySqlPre -> AllergyRuleRow
      [] text.post = AllergyCypherPost -> ComponentRow
      [] text.post = IndicationPost -> IndicationRow
      [] text.pre = ContraPre -> ContraindicationRow
      [] OTHER -> OtherRow

\* the row lists a store may hold for a statement
RowLists(text) == { <<>>, << RowFor(text) >> }

StoreOutcomes(text) == { [rows |-> r] : r \in RowLists(text) } \cup {StoreError, OtherError}

\* MySQLHandler.execute_query: mysql.connector.Error is caught and [] is
\* returned; any other exception propagates
MySQLExecuteQuery(outcome) ==
    IF "rows" \in DOMAIN outcome THEN [ret |-> outcome.rows]
    ELSE IF "store_error" \in DOMAIN outcome THEN [ret |-> <<>>]
    ELSE [raise |-> outcome.exception]

\* Neo4jHandler.execute_read: every Exception is caught and [] is returned
Neo4jExecuteRead(outcome) ==
    IF "rows" \in DOMAIN outcome THEN [ret |-> outcome.rows]
    ELSE [ret |-> <<>>]

\* ------------------------------------------------------ p3 QueryExecutor
\* line 40: if not lang or not query
InvalidItem(query_item) ==
    \/ Get(query_item, "lang", "") = ""
    \/ Get(query_item, "query", EmptyText) = EmptyText

\* line 45: if query in all_results
AlreadyExecuted(query, results) == OdHas(results, query)

\* a dispatch that sends graph statements to the write method
BackendFor_Write(lang) ==
    IF lang = "sql" THEN "MySQLHandler.execute_query"
    ELSE IF lang = "cypher" THEN "Neo4jHandler.execute_write"
    ELSE "none"

\* a dispatch that lacks the cypher branch
BackendFor_NoCypher(lang) ==
    IF lang = "sql" THEN "MySQLHandler.execute_query" ELSE "none"

\* lines 49-60: the store client method a lang tag is dispatched to
BackendFor(lang) ==
    IF lang = "sql" THEN "MySQLHandler.execute_query"
    ELSE IF lang = "cypher" THEN "Neo4jHandler.execute_read"
    ELSE "none"

CallBackend(handler, outcome) ==
    IF handler = "MySQLHandler.execute_query" THEN MySQLExecuteQuery(outcome)
    ELSE Neo4jExecuteRead(outcome)

\* the loop body without its try/except: the backend's exception escapes
RecordedResult_NoCatch(lang, answer) ==
    IF lang \notin {"sql", "cypher"} THEN [ret |-> [error |-> "Unsupported language"]]
    ELSE IF "ret" \in DOMAIN answer THEN [ret |-> [rows |-> answer.ret]]
    ELSE [raise |-> answer.raise]

\* lines 48-63: try: ... except Exception: the entry recorded for a
\* statement ([ret |-> entry]); nothing is raised to the caller
RecordedResult(lang, answer) ==
    IF BackendFor(lang) = "none" THEN [ret |-> [error |-> "Unsupported language"]]
    ELSE IF "ret" \in DOMAIN answer THEN [ret |-> [rows |-> answer.ret]]
    ELSE [ret |-> [error |-> answer.raise]]

\* ------------------------------------------------ p3.1 EvidencePreprocessor
\* A text column is a sequence of character codes; a nullable column is <<>>
\* (NULL) or << value >>.
Range(seq) == { seq[n] : n \in DOMAIN seq }

\* rule.get(c): None for a missing column
Col(rule, c) == Get(rule, c, <<>>)

OptTruthy(col, zero) == col # <<>> /\ col[1] # zero

\* a `in` b for two texts
IsSubstring(a, b) ==
    \E s \in 0..(Len(b) - Len(a)) : \A n \in 1..Len(a) : b[s + n] = a[n]

\* isinstance(result_list, list)
IsList(result) == "rows" \in DOMAIN result

\* a flattening that takes an error descriptor for a row
RECURSIVE FlattenRows_NoCheck(_)
FlattenRows_NoCheck(evidence) ==
    IF evidence = <<>> THEN <<>>
    ELSE (IF IsList(Head(evidence).v) THEN Head(evidence).v.rows
          ELSE << Head(evidence).v >>)
         \o FlattenRows_NoCheck(Tail(evidence))

\* for _, result_list in evidence.items(): if list: all.extend(result_list)
RECURSIVE FlattenRows(_)
FlattenRows(evidence) ==
    IF evidence = <<>> THEN <<>>
    ELSE (IF IsList(Head(evidence).v) THEN Head(evidence).v.rows ELSE <<>>)
         \o FlattenRows(Tail(evidence))

\* lines 44-50
PatientAge(patient_info) ==
    IF "age" \notin DOMAIN patient_info THEN <<>>
    ELSE IF "obj" \in DOMAIN patient_info.age
         THEN Get(patient_info.age.obj, "value", <<>>)
    ELSE IF "num" \in DOMAIN patient_info.age THEN << patient_info.age.num >>
    ELSE <<>>

\* the literal of lines 53-57 in ASCII
LevelUnknown == "unknown"

\* lines 52-57
PatientLevel(patient_info, organ) ==
    IF "organ_function" \in DOMAIN patient_info
    THEN Get(patient_info.organ_function, organ, LevelUnknown)
    ELSE LevelUnknown

\* lines 77-79: the rule is skipped on the patient's age
AgeExcluded(rule, patient_age) ==
    /\ patient_age # <<>>
    /\ \/ OptTruthy(Col(rule, "age_min_years"), 0)
            /\ patient_age[1] < rule.age_min_years[1]
       \/ OptTruthy(Col(rule, "age_max_years"), 0)
            /\ patient_age[1] > rule.age_max_years[1]

\* line 116: None + str raises TypeError
ContextRaises(rule) ==
    \/ Get(rule, "notes", << <<>> >>) = <<>>
    \/ Get(rule, "source_text", << <<>> >>) = <<>>

\* a score without the penalty for a level that differs
DosageScore_NoPenalty(rule, patient_renal, patient_hepatic, diagnoses, risk_types) ==
    LET renal == OptTruthy(Col(rule, "renal_impairment"), "")
        hepatic == OptTruthy(Col(rule, "hepatic_impairment"), "")
        is_adjustment_rule ==
            renal \/ hepatic \/ OptTruthy(Col(rule, "other_conditions"), "")
        is_standard_rule == ~(renal \/ hepatic)
        rule_context ==
            Get(rule, "notes", << <<>> >>)[1] \o Get(rule, "source_text", << <<>> >>)[1]
    IN (IF renal
        THEN (IF rule.renal_impairment[1] = patient_renal THEN 15 ELSE 0) ELSE 0)
     + (IF hepatic
        THEN (IF rule.hepatic_impairment[1] = patient_hepatic THEN 15 ELSE 0) ELSE 0)
     + (IF is_standard_rule
        THEN (IF patient_renal = LevelNone /\ patient_hepatic = LevelNone THEN 5 ELSE 1)
        ELSE 0)
     + (IF \E n \in DOMAIN diagnoses : IsSubstring(diagnoses[n], rule_context)
        THEN 3 ELSE 0)
     + (IF "DOSE_ADJUSTMENT_MISSED" \in Range(risk_types) /\ is_adjustment_rule
        THEN 10 ELSE 0)
     + (IF "DOSAGE_OVER" \in Range(risk_types) /\ is_standard_rule THEN 5 ELSE 0)

\* lines 73-126: the score of a rule that is not excluded
DosageScore(rule, patient_renal, patient_hepatic, diagnoses, risk_types) ==
    LET renal == OptTruthy(Col(rule, "renal_impairment"), "")
        hepatic == OptTruthy(Col(rule, "hepatic_impairment"), "")
        is_adjustment_rule ==
            renal \/ hepatic \/ OptTruthy(Col(rule, "other_conditions"), "")
        is_standard_rule == ~(renal \/ hepatic)
        rule_context ==
            Get(rule, "notes", << <<>> >>)[1] \o Get(rule, "source_text", << <<>> >>)[1]
    IN (IF renal
        THEN (IF rule.renal_impairment[1] = patient_renal THEN 15 ELSE -5) ELSE 0)
     + (IF hepatic
        THEN (IF rule.hepatic_impairment[1] = patient_hepatic THEN 15 ELSE -5) ELSE 0)
     + (IF is_standard_rule
        THEN (IF patient_renal = LevelNone /\ patient_hepatic = LevelNone THEN 5 ELSE 1)
        ELSE 0)
     + (IF \E n \in DOMAIN diagnoses : IsSubstring(diagnoses[n], rule_context)
        THEN 3 ELSE 0)
     + (IF "DOSE_ADJUSTMENT_MISSED" \in Range(risk_types) /\ is_adjustment_rule
        THEN 10 ELSE 0)
     + (IF "DOSAGE_OVER" \in Range(risk_types) /\ is_standard_rule THEN 5 ELSE 0)

\* a descending sort that puts a rule before the earlier rules of its score
RECURSIVE SortByScore_Unstable(_)
SortByScore_Unstable(scored) ==
    IF scored = <<>> THEN <<>>
    ELSE LET front == SortByScore_Unstable(SubSeq(scored, 1, Len(scored) - 1))
             x == scored[Len(scored)]
             ahead == { n \in DOMAIN front : front[n].score > x.score }
             at == Cardinality(ahead)
         IN SubSeq(front, 1, at) \o << x >> \o SubSeq(front, at + 1, Len(front))

\* sorted(..., key=score, reverse=True): stable, descending
RECURSIVE SortByScore(_)
SortByScore(scored) ==
    IF scored = <<>> THEN <<>>
    ELSE LET front == SortByScore(SubSeq(scored, 1, Len(scored) - 1))
             x == scored[Len(scored)]
             ahead == { n \in DOMAIN front : front[n].score >= x.score }
             at == Cardinality(ahead)
         IN SubSeq(front, 1, at) \o << x >> \o SubSeq(front, at + 1, Len(front))

\* the rules that pass lines 77-79, in order
RECURSIVE SelectRules(_, _)
SelectRules(rules, patient_age) ==
    IF rules = <<>> THEN <<>>
    ELSE (IF AgeExcluded(Head(rules), patient_age) THEN <<>> ELSE << Head(rules) >>)
         \o SelectRules(Tail(rules), patient_age)

\* _process_dosage_evidence: [text |-> curated text] or [raise |-> exception]
ProcessDosageEvidence(task_data, evidence) ==
    LET params == Get(task_data, "params", EmptyDict)
        risk_types == Get(task_data, "riskType", List(<<>>)).list
        patient_info == Get(params, "patient_info", EmptyDict)
        patient_age == PatientAge(patient_info)
        patient_renal == PatientLevel(patient_info, "renal_impairment")
        patient_hepatic == PatientLevel(patient_info, "hepatic_impairment")
        diagnoses == Get(Get(params, "context", EmptyDict), "diagnoses", <<>>)
        all_rules == FlattenRows(evidence)
        kept == SelectRules(all_rules, patient_age)
        scored_rules ==
            [n \in DOMAIN kept |->
                [rule |-> kept[n],
                 score |-> DosageScore(kept[n], patient_renal, patient_hepatic,
                                       diagnoses, risk_types)]]
        top_rules == SortByScore(scored_rules)
        shown == SubSeq(top_rules, 1, IF Len(top_rules) < 3 THEN Len(top_rules) ELSE 3)
    IN IF all_rules = <<>> THEN [text |-> [msg |-> "dosage: no rules found"]]
       ELSE IF \E n \in DOMAIN kept : ContextRaises(kept[n]) THEN [raise |-> "TypeError"]
       ELSE IF top_rules = <<>> THEN [text |-> [msg |-> "dosage: no rules matched"]]
       ELSE [text |-> [msg |-> "dosage: ranked rules", lines |-> shown]]

\* task_data['params']['drug_name'] raises KeyError
NoDrugNameKey(task_data) ==
    "params" \notin DOMAIN task_data \/ "drug_name" \notin DOMAIN task_data.params

\* _process_indication_evidence
ProcessIndicationEvidence(task_data, evidence) ==
    LET indications == FlattenRows(evidence)
    IN IF NoDrugNameKey(task_data) THEN [raise |-> "KeyError"]
       ELSE IF indications = <<>>
       THEN [text |-> [msg |-> "indication: none found", drug |-> task_data.params.drug_name]]
       ELSE [text |-> [msg |-> "indication: approved indications",
                       drug |-> task_data.params.drug_name,
                       lines |-> [n \in DOMAIN indications |->
                                    [approved_indication |->
                                        Col(indications[n], "approved_indication"),
                                     evidence |-> Col(indications[n], "evidence")]]]]

\* _get_base_drug_name: the suffix list of line 237, a character per string
\* (pian, jiao nang, ke li, zhu she ye, kou fu ye, huan shi pian,
\*  chang rong pian, huan shi jiao nang)
Suffixes ==
    << <<"pian">>, <<"jiao", "nang">>, <<"ke", "li">>, <<"zhu", "she", "ye">>,
       <<"kou", "fu", "ye">>, <<"huan", "shi", "pian">>,
       <<"chang", "rong", "pian">>, <<"huan", "shi", "jiao", "nang">> >>

EndsWith(name, suffix) ==
    /\ Len(name) >= Len(suffix)
    /\ SubSeq(name, Len(name) - Len(suffix) + 1, Len(name)) = suffix

\* the first suffix of the list the name ends with is cut off
GetBaseDrugName(drug_name) ==
    LET hits == { n \in DOMAIN Suffixes : EndsWith(drug_name, Suffixes[n]) }
    IN IF hits = {} THEN drug_name
       ELSE LET first == CHOOSE n \in hits : \A m \in hits : n <= m
            IN SubSeq(drug_name, 1, Len(drug_name) - Len(Suffixes[first]))

\* _get_base_drug_name of a nullable column: "" for a value that is no str
BaseOfCol(col) == IF col = <<>> THEN <<>> ELSE GetBaseDrugName(col[1])

\* lines 268-275: the parsed affected_target_examples
Examples(rule) ==
    LET col == Col(rule, "affected_target_examples")
    IN IF col = <<>> THEN <<>>
       ELSE IF "list" \in DOMAIN col[1] THEN col[1].list
       ELSE <<>>

\* lines 279-298: the rule is appended to matched_interactions
RuleMatches(rule, drug1_base, drug2_base) ==
    LET precipitant_base == BaseOfCol(rule.precipitant_drug_name)
        affected_target_base == BaseOfCol(rule.affected_target_name)
        examples == Examples(rule)
        Target(base) ==
            \/ IsSubstring(base, affected_target_base)
            \/ \E n \in DOMAIN examples : IsSubstring(base, GetBaseDrugName(examples[n]))
    IN IF IsSubstring(drug1_base, precipitant_base) THEN Target(drug2_base)
       ELSE IF IsSubstring(drug2_base, precipitant_base) THEN Target(drug1_base)
       ELSE FALSE

\* if rule not in matched_interactions: matched_interactions.append(rule)
RECURSIVE MatchedInteractions(_, _, _)
MatchedInteractions(rules, drug1_base, drug2_base) ==
    IF rules = <<>> THEN <<>>
    ELSE LET front == MatchedInteractions(SubSeq(rules, 1, Len(rules) - 1),
                                          drug1_base, drug2_base)
             rule == rules[Len(rules)]
         IN IF RuleMatches(rule, drug1_base, drug2_base) /\ rule \notin Range(front)
            THEN Append(front, rule)
            ELSE front

\* _process_interaction_evidence
ProcessInteractionEvidence(task_data, evidence) ==
    LET all_rules == FlattenRows(evidence)
        params == Get(task_data, "params", EmptyDict)
    IN IF all_rules = <<>> THEN [text |-> [msg |-> "interaction: no records"]]
       ELSE IF "params" \notin DOMAIN task_data \/ "drug_pair" \notin DOMAIN params
       THEN [raise |-> "KeyError"]
       ELSE IF Len(params.drug_pair) # 2 THEN [raise |-> "ValueError"]
       ELSE IF \E n \in DOMAIN all_rules :
                  \/ "precipitant_drug_name" \notin DOMAIN all_rules[n]
                  \/ "affected_target_name" \notin DOMAIN all_rules[n]
       THEN [raise |-> "KeyError"]
       ELSE LET drug1 == params.drug_pair[1]
                drug2 == params.drug_pair[2]
                matched_interactions ==
                    MatchedInteractions(all_rules, GetBaseDrugName(drug1),
                                        GetBaseDrugName(drug2))
            IN IF matched_interactions = <<>>
               THEN [text |-> [msg |-> "interaction: none between", drug1 |-> drug1,
                               drug2 |-> drug2]]
               ELSE [text |-> [msg |-> "interaction: matched", drug1 |-> drug1,
                               drug2 |-> drug2, lines |-> matched_interactions]]

\* marker `in` query (lines 325, 327), for the literals of the planner
TextContains(text, marker) ==
    \/ marker \in {"CONTAINS", "Substance"} /\ text.post = AllergyCypherPost
    \/ marker = "allergy_rules" /\ text.pre = AllergySqlPre

\* lines 320-328
RECURSIVE AllergyRows(_, _)
AllergyRows(evidence, kind) ==
    IF evidence = <<>> THEN <<>>
    ELSE LET e == Head(evidence)
             is_component ==
                 TextContains(e.k, "CONTAINS") /\ TextContains(e.k, "Substance")
             mine == IF ~IsList(e.v) THEN FALSE
                     ELSE IF kind = "components" THEN is_component
                     ELSE ~is_component /\ TextContains(e.k, "allergy_rules")
         IN (IF mine THEN e.v.rows ELSE <<>>) \o AllergyRows(Tail(evidence), kind)

\* [c.get('substance_name') for c in components if c.get('role') == role]
RECURSIVE NamesOfRole(_, _)
NamesOfRole(components, role) ==
    IF components = <<>> THEN <<>>
    ELSE (IF Col(Head(components), "role") = << role >>
          THEN << Col(Head(components), "substance_name") >> ELSE <<>>)
         \o NamesOfRole(Tail(components), role)

\* _process_allergy_evidence; ', '.join raises TypeError on a None name
ProcessAllergyEvidence(task_data, evidence) ==
    LET components == AllergyRows(evidence, "components")
        rules == AllergyRows(evidence, "rules")
        active_ingredients == NamesOfRole(components, "active ingredient")
        excipients == NamesOfRole(components, "excipient")
    IN IF NoDrugNameKey(task_data) THEN [raise |-> "KeyError"]
       ELSE IF <<>> \in Range(active_ingredients) \cup Range(excipients)
       THEN [raise |-> "TypeError"]
       ELSE [text |->
               [msg |-> "allergy", drug |-> task_data.params.drug_name,
                lines |->
                   (IF components # <<>>
                    THEN (IF active_ingredients # <<>>
                          THEN << [line |-> "1. active ingredients",
                                   items |-> active_ingredients] >> ELSE <<>>)
                      \o (IF excipients # <<>>
                          THEN << [line |-> "2. excipients", items |-> excipients] >>
                          ELSE <<>>)
                    ELSE << [line |-> "1. no composition found", items |-> <<>>] >>)
                   \o (IF rules # <<>>
                       THEN << [line |-> "3. allergy rules",
                                items |-> [n \in DOMAIN rules |->
                                              Col(rules[n], "source_text")]] >>
                       ELSE << [line |-> "3. no allergy rule found", items |-> <<>>] >>)]]

\* a < b for two texts, lexicographically
LexLess(a, b) ==
    \E n \in 1..(Len(b)) :
        /\ \A m \in 1..(n - 1) : m <= Len(a) /\ a[m] = b[m]
        /\ (n > Len(a) \/ (n <= Len(a) /\ a[n] < b[n]))

\* sorted(list(set(...))) of texts
RECURSIVE SortTexts(_)
SortTexts(texts) ==
    IF texts = {} THEN <<>>
    ELSE LET least == CHOOSE t \in texts : \A u \in texts \ {t} : LexLess(t, u)
         IN << least >> \o SortTexts(texts \ {least})

\* each text of `sorted`, once per distinct row that carries it
RECURSIVE LinePerRow(_, _)
LinePerRow(sorted, rules) ==
    IF sorted = <<>> THEN <<>>
    ELSE [m \in 1..Cardinality({ r \in Range(rules) : r.source_text = << Head(sorted) >> })
            |-> Head(sorted)]
         \o LinePerRow(Tail(sorted), rules)

\* a curator that removes duplicates by the whole row
ProcessContraindicationEvidence_ByRow(task_data, evidence) ==
    LET rules == FlattenRows(evidence)
        texts == { Col(rules[n], "source_text") : n \in DOMAIN rules }
    IN IF NoDrugNameKey(task_data) THEN [raise |-> "KeyError"]
       ELSE IF rules = <<>>
       THEN [text |-> [msg |-> "contraindication: none found",
                       drug |-> task_data.params.drug_name]]
       ELSE IF \E n \in DOMAIN rules : "source_text" \notin DOMAIN rules[n]
       THEN [raise |-> "KeyError"]
       ELSE IF <<>> \in texts /\ texts # {<<>>} THEN [raise |-> "TypeError"]
       ELSE [text |-> [msg |-> "contraindication: warnings",
                       drug |-> task_data.params.drug_name,
                       lines |-> IF texts = {<<>>} THEN << <<>> >>
                                 ELSE LinePerRow(SortTexts({ t[1] : t \in texts }), rules)]]

\* _process_contraindication_evidence; r['source_text'] raises KeyError,
\* sorted raises TypeError on None beside a str
ProcessContraindicationEvidence(task_data, evidence) ==
    LET rules == FlattenRows(evidence)
        texts == { Col(rules[n], "source_text") : n \in DOMAIN rules }
    IN IF NoDrugNameKey(task_data) THEN [raise |-> "KeyError"]
       ELSE IF rules = <<>>
       THEN [text |-> [msg |-> "contraindication: none found",
                       drug |-> task_data.params.drug_name]]
       ELSE IF \E n \in DOMAIN rules : "source_text" \notin DOMAIN rules[n]
       THEN [raise |-> "KeyError"]
       ELSE IF <<>> \in texts /\ texts # {<<>>} THEN [raise |-> "TypeError"]
       ELSE [text |-> [msg |-> "contraindication: warnings",
                       drug |-> task_data.params.drug_name,
                       lines |-> IF texts = {<<>>} THEN << <<>> >>
                                 ELSE SortTexts({ t[1] : t \in texts })]]

\* process_task: the curated_evidence attached to the task, or the exception
ProcessTask(task_data, evidence) ==
    IF "riskType" \notin DOMAIN task_data THEN [raise |-> "KeyError"]
    ELSE IF "str" \in DOMAIN task_data.riskType
    THEN (IF task_data.riskType.str = "" THEN [raise |-> "IndexError"]
          ELSE [text |-> [msg |-> "no rule for this risk type"]])
    ELSE IF task_data.riskType.list = <<>> THEN [raise |-> "IndexError"]
    ELSE LET risk_type == task_data.riskType.list[1]
         IN IF MarkerIn("DOSAGE", risk_type) \/ MarkerIn("DOSE_ADJUSTMENT", risk_type)
            THEN ProcessDosageEvidence(task_data, evidence)
            ELSE IF risk_type = "INDICATION_MISMATCH"
            THEN ProcessIndicationEvidence(task_data, evidence)
            ELSE IF risk_type = "INTERACTION_DRUG_DRUG"
            THEN ProcessInteractionEvidence(task_data, evidence)
            ELSE IF risk_type = "ALLERGY_CONFLICT"
            THEN ProcessAllergyEvidence(task_data, evidence)
            ELSE IF risk_type = "CONTRAINDICATION_CONDITION"
            THEN ProcessContraindicationEvidence(task_data, evidence)
            ELSE [text |-> [msg |-> "no rule for this risk type"]]

\* ------------------------------------------------------------ LLMClient
\* What the engine call does: it fails (any exception of the API call), or
\* it answers with a content that is JSON text of a value ([valid |-> v],
\* also after repair) or that repair_json cannot repair ([broken |-> raw]).
RepairJson(content) ==
    IF "valid" \in DOMAIN content THEN [json |-> content.valid] ELSE [text |-> ""]

\* LLMClient.generate: the response string; "[]" when the call fails
LLMGenerate(api) ==
    IF "api_error" \in DOMAIN api THEN [json |-> [array |-> <<>>]]
    ELSE RepairJson(api.content)

EngineApi(contents) == { [api_error |-> "api error"] } \cup { [content |-> c] : c \in contents }

\* json.loads fails with JSONDecodeError
NotJson(response) == "text" \in DOMAIN response

\* ------------------------------------------------------ p1 TaskGenerator
\* generate_tasks_for_case, lines 32-43, on the engine's response
GenerateTasksForCase(response) ==
    IF NotJson(response) THEN [ret |-> <<>>]
    ELSE IF "array" \in DOMAIN response.json THEN [ret |-> response.json.array]
    ELSE [ret |-> <<>>]

\* --------------------------------------- p3.2 ContextualInstructionRetriever
\* the strings of lines 29-93 (ASCII for the Chinese literals)
NoInstructions == [msg |-> "note: no further instructions in the knowledge base"]
SelectionFailed == [msg |-> "note: the engine failed to select instructions"]
NoneSelected == [msg |-> "note: no instruction selected for this patient"]
EmptyString == [msg |-> ""]

AdminPre ==
    "SELECT tags, instruction_text, llm_summary FROM administration_texts WHERE drug_canonical_name = '"

AdminText(drug_name) == [pre |-> AdminPre, drug |-> drug_name, post |-> "'"]

\* json.loads(record['tags']) as a set of tags; {} when it raises
\* (NULL, invalid JSON: except (JSONDecodeError, TypeError): continue)
RecordTags(record) ==
    IF record.tags = <<>> THEN {}
    ELSE IF "list" \in DOMAIN record.tags[1] THEN Range(record.tags[1].list)
    ELSE {}

\* the rendered texts of all intersecting records, repeated ones included
RECURSIVE RelevantInstructions_NoDedupe(_, _)
RelevantInstructions_NoDedupe(all_records, relevant_tags) ==
    IF all_records = <<>> THEN <<>>
    ELSE LET front == RelevantInstructions_NoDedupe(
                          SubSeq(all_records, 1, Len(all_records) - 1), relevant_tags)
             record == all_records[Len(all_records)]
             instruction_text ==
                 [instruction_text |-> record.instruction_text,
                  llm_summary |-> record.llm_summary]
         IN IF RecordTags(record) \cap relevant_tags # {}
            THEN Append(front, instruction_text)
            ELSE front

\* lines 76-89: the rendered instruction texts, each once, in record order
RECURSIVE RelevantInstructions(_, _)
RelevantInstructions(all_records, relevant_tags) ==
    IF all_records = <<>> THEN <<>>
    ELSE LET front == RelevantInstructions(
                          SubSeq(all_records, 1, Len(all_records) - 1), relevant_tags)
             record == all_records[Len(all_records)]
             instruction_text ==
                 [instruction_text |-> record.instruction_text,
                  llm_summary |-> record.llm_summary]
         IN IF RecordTags(record) \cap relevant_tags # {}
               /\ instruction_text \notin Range(front)
            THEN Append(front, instruction_text)
            ELSE front

\* the tags a parsed response selects: the items of an array, the keys of
\* an object; a value that cannot be iterated makes isdisjoint raise the
\* TypeError of lines 88-89 for every record
SelectedTags(value) ==
    IF "array" \in DOMAIN value THEN Range(value.array)
    ELSE IF "object" \in DOMAIN value THEN DOMAIN value.object
    ELSE {}

\* `not relevant_tags`
FalsyJson(value) ==
    IF "array" \in DOMAIN value THEN value.array = <<>>
    ELSE IF "object" \in DOMAIN value THEN value.object = EmptyDict
    ELSE value.number = 0

\* retrieve_instructions_for_case: [ret |-> the text, store |-> whether the
\* store was queried, engine |-> whether the engine was called], or
\* [raise |-> exception] when the store client raises
RetrieveInstructionsForCase(prescriptions, outcome, api) ==
    IF prescriptions = <<>> \/ Falsy(prescriptions[1], "drug_name")
    THEN [ret |-> EmptyString, store |-> FALSE, engine |-> FALSE]
    ELSE LET answer == MySQLExecuteQuery(outcome)
         IN IF "raise" \in DOMAIN answer THEN [raise |-> answer.raise]
            ELSE LET all_records == answer.ret
                     unique_tags ==
                         UNION { RecordTags(all_records[n]) : n \in DOMAIN all_records }
                     response == LLMGenerate(api)
                 IN IF all_records = <<>>
                    THEN [ret |-> NoInstructions, store |-> TRUE, engine |-> FALSE]
                    ELSE IF unique_tags = {}
                    THEN [ret |-> NoInstructions, store |-> TRUE, engine |-> FALSE]
                    ELSE IF NotJson(response)
                    THEN [ret |-> SelectionFailed, store |-> TRUE, engine |-> TRUE]
                    ELSE IF FalsyJson(response.json)
                    THEN [ret |-> NoneSelected, store |-> TRUE, engine |-> TRUE]
                    ELSE LET relevant_instructions ==
                                 RelevantInstructions(all_records,
                                                      SelectedTags(response.json))
                         IN IF relevant_instructions = <<>>
                            THEN [ret |-> NoneSelected, store |-> TRUE, engine |-> TRUE]
                            ELSE [ret |-> [msg |-> "instructions from the knowledge base",
                                           lines |-> relevant_instructions],
                                  store |-> TRUE, engine |-> TRUE]

\* ---------------------------------------------------------- p4 LLMAnalyzer
\* json.loads without its except clause
GenerateAuditReport_Raise(response) ==
    IF NotJson(response) THEN [raise |-> "JSONDecodeError"]
    ELSE [ret |-> response.json]

\* generate_audit_report, lines 107-114, on the engine's response
GenerateAuditReport(response) ==
    IF NotJson(response)
    THEN [ret |-> [error |-> "LLM response was not valid JSON.",
                   raw_response |-> response.text]]
    ELSE [ret |-> response.json]

\* ------------------------------------------------------------- the inputs
Task(risk, params) == [riskType |-> risk, params |-> params]

\* the task objects the batch run is checked with
PipelineTasks ==
    { Task(List(<<"DOSAGE_OVER">>), [drug_name |-> DrugA]),
      Task(Str("DOSAGE_OVER"), [drug_name |-> DrugA]),
      Task(List(<<"ALLERGY_CONFLICT">>), [drug_name |-> DrugA]),
      Task(List(<<"INDICATION_MISMATCH">>), EmptyDict),
      Task(List(<<"CONTRAINDICATION_CONDITION">>),
           [drug_name |-> DrugA, patient_info |-> [gender |-> "F"]]),
      Task(List(<<"CONTRAINDICATION_CONDITION">>),
           [drug_name |-> DrugA, patient_info |-> [age |-> [num |-> 40]]]),
      Task(List(<<>>), [drug_name |-> DrugA]),
      [params |-> [drug_name |-> DrugA]],
      [riskType |-> List(<<"DOSAGE_OVER">>)] }

\* the task objects an engine response may hold
TaskUniverse ==
    PipelineTasks \cup
    { Task(List(<<"FREQUENCY_ERROR">>), [drug_name |-> DrugA]),
      Task(List(<<"INTERACTION_DRUG_DRUG">>), [drug_pair |-> <<DrugA, DrugB>>]),
      Task(List(<<"INTERACTION_DRUG_DRUG">>), [drug_pair |-> <<DrugB, DrugA>>]),
      Task(List(<<"INDICATION_MISMATCH">>), [drug_name |-> DrugA]),
      Task(List(<<"UNKNOWN_RISK">>), [drug_name |-> DrugA]) }

TaskLists == SeqsUpTo(PipelineTasks, MaxTasks)

\* the contents the engine may answer with, by the stage that asks
P1Contents ==
    { [broken |-> "no json"], [valid |-> [object |-> EmptyDict]] }
    \cup { [valid |-> [array |-> ts]] : ts \in TaskLists }

P32Contents ==
    { [broken |-> "no json"], [valid |-> [array |-> <<>>]],
      [valid |-> [array |-> <<"t1">>]], [valid |-> [array |-> <<"t3">>]],
      [valid |-> [number |-> 1]] }

P4Contents ==
    { [broken |-> "no json"], [valid |-> [object |-> [overall_risk |-> "low"]]] }

\* prescription_orders of a case
PrescriptionLists == { <<>>, << [drug_name |-> DrugA] >>, << [dose |-> "1"] >> }

\* rows of administration_texts
AdminRecord(tags, n) ==
    [tags |-> tags, instruction_text |-> << <<n>> >>, llm_summary |-> << <<n>> >>]

AdminOutcomes ==
    { [rows |-> <<>>],
      [rows |-> << AdminRecord(<< [list |-> <<"t1">>] >>, 1) >>],
      [rows |-> << AdminRecord(<< [list |-> <<"t1">>] >>, 1),
                   AdminRecord(<< [list |-> <<"t1", "t2">>] >>, 1) >>],
      [rows |-> << AdminRecord(<<>>, 1) >>],
      StoreError, OtherError }

\* the items a direct caller may put into a plan
ExecItems ==
    { [lang |-> l, query |-> [pre |-> q, drug |-> <<>>, post |-> ""]] :
        l \in {"sql", "cypher", "gremlin", ""}, q \in {"q1", "q2", ""} }
    \cup { [query |-> [pre |-> "q1", drug |-> <<>>, post |-> ""]], [lang |-> "sql"] }

\* --------------------------------------------------------------- the state
VARIABLES
    pc,                     \* position in main / execute_plan
    exc,                    \* the exception that ended the run ("" if none)
    i,                      \* index of the case being processed (1-based)
    all_results,            \* main: one summary per finished case
    p1_tasks,               \* the task objects the compiler returned
    j,                      \* loop index of the plan loop and of the curate loop
    all_queries,
    tasks_with_queries_map,
    unique_queries,
    k,                      \* loop index of execute_plan
    exec_all_results,       \* execute_plan's local all_results
    p3_results,
    curated_tasks,
    p3_2_instructions,
    p4_report,
    calls,                  \* history: store client calls of the current case
    engine_calls,           \* history: engine calls of the current case
    events,                 \* history: the stage steps of the current case
    call_args,              \* a stage function called on its own: its argument
    call_ret                \* ... and what it returned, call by call

vars == << pc, exc, i, all_results, p1_tasks, j, all_queries,
           tasks_with_queries_map, unique_queries, k, exec_all_results,
           p3_results, curated_tasks, p3_2_instructions, p4_report, calls,
           engine_calls, events, call_args, call_ret >>

\* a value for a local that is not assigned yet
Unset == [unset |-> TRUE]

Init ==
    /\ pc = "compile"
    /\ exc = ""
    /\ i = 1
    /\ all_results = <<>>
    /\ p1_tasks = <<>>
    /\ j = 1
    /\ all_queries = <<>>
    /\ tasks_with_queries_map = <<>>
    /\ unique_queries = <<>>
    /\ k = 1
    /\ exec_all_results = <<>>
    /\ p3_results = <<>>
    /\ curated_tasks = <<>>
    /\ p3_2_instructions = Unset
    /\ p4_report = Unset
    /\ calls = <<>>
    /\ engine_calls = <<>>
    /\ events = <<>>
    /\ call_args = Unset
    /\ call_ret = <<>>

Event(stage, n) == [case |-> i, stage |-> stage, n |-> n]

Raise(e) ==
    /\ pc' = "raised"
    /\ exc' = e

\* case_result as all_results keeps it: the case and the keys of
\* pipeline_results
CaseResult(stages) == [case_id |-> i, pipeline_results |-> stages]


\* ------------------------------------------------------------ the actions
\* main, lines 77-92: the case's tasks are compiled
CompileTasks ==
    /\ pc = "compile"
    /\ i <= NumCases
    /\ \E api \in EngineApi(P1Contents) :
         LET response == LLMGenerate(api)
             tasks == GenerateTasksForCase(response)
         IN /\ engine_calls' = Append(engine_calls, [stage |-> "p1", response |-> response])
            /\ IF "raise" \in DOMAIN tasks
               THEN Raise(tasks.raise) /\ p1_tasks' = <<>>
               ELSE pc' = "p1_returned" /\ exc' = exc /\ p1_tasks' = tasks.ret
    /\ events' = Append(events, Event("compile", 0))
    /\ UNCHANGED << i, all_results, j, all_queries, tasks_with_queries_map,
                    unique_queries, k, exec_all_results, p3_results, curated_tasks,
                    p3_2_instructions, p4_report, calls >>
    /\ UNCHANGED << call_args, call_ret >>

\* `continue` without the append of line 95
SkipCase_NoAppend ==
    /\ pc = "p1_returned"
    /\ p1_tasks = <<>>
    /\ pc' = "iterate"
    /\ UNCHANGED << exc, i, all_results, p1_tasks, j, all_queries,
                    tasks_with_queries_map, unique_queries, k, exec_all_results,
                    p3_results, curated_tasks, p3_2_instructions, p4_report, calls,
                    engine_calls, events >>
    /\ UNCHANGED << call_args, call_ret >>

\* main, lines 93-96: no task, the case's result is appended as it is
SkipCase ==
    /\ pc = "p1_returned"
    /\ p1_tasks = <<>>
    /\ all_results' = Append(all_results, CaseResult({"p1_generated_tasks"}))
    /\ pc' = "iterate"
    /\ UNCHANGED << exc, i, p1_tasks, j, all_queries, tasks_with_queries_map,
                    unique_queries, k, exec_all_results, p3_results, curated_tasks,
                    p3_2_instructions, p4_report, calls, engine_calls, events >>
    /\ UNCHANGED << call_args, call_ret >>

\* main, lines 93, 98-99
StartPlan ==
    /\ pc = "p1_returned"
    /\ p1_tasks # <<>>
    /\ all_queries' = <<>>
    /\ tasks_with_queries_map' = <<>>
    /\ j' = 1
    /\ pc' = "plan"
    /\ UNCHANGED << exc, i, all_results, p1_tasks, unique_queries, k,
                    exec_all_results, p3_results, curated_tasks, p3_2_instructions,
                    p4_report, calls, engine_calls, events >>
    /\ UNCHANGED << call_args, call_ret >>

\* a plan loop that stops after its first task
PlanLoopDone_AfterFirst == j > 1

\* for task in p1_tasks: the loop of lines 100-103 is over
PlanLoopDone == j > Len(p1_tasks)

\* main, lines 100-103: one task is planned; the planner normalises the
\* task object it is given in place
PlanTask ==
    /\ pc = "plan"
    /\ ~PlanLoopDone
    /\ LET queries == GenerateQueriesForTask(p1_tasks[j])
       IN /\ p1_tasks' = [p1_tasks EXCEPT ![j] = NormalizeRiskType(@)]
          /\ all_queries' = all_queries \o queries
          /\ tasks_with_queries_map' =
                 Append(tasks_with_queries_map, [task_data |-> j, queries |-> queries])
    /\ j' = j + 1
    /\ events' = Append(events, Event("plan", j))
    /\ UNCHANGED << pc, exc, i, all_results, unique_queries, k, exec_all_results,
                    p3_results, curated_tasks, p3_2_instructions, p4_report, calls,
                    engine_calls >>
    /\ UNCHANGED << call_args, call_ret >>

\* main, lines 105-106
Dedupe ==
    /\ pc = "plan"
    /\ PlanLoopDone
    /\ unique_queries' = UniqueQueries(all_queries)
    /\ pc' = "p3_call"
    /\ events' = Append(events, Event("dedupe", 0))
    /\ UNCHANGED << exc, i, all_results, p1_tasks, j, all_queries,
                    tasks_with_queries_map, k, exec_all_results, p3_results,
                    curated_tasks, p3_2_instructions, p4_report, calls, engine_calls >>
    /\ UNCHANGED << call_args, call_ret >>

\* execute_plan is entered (main line 108, executor lines 33-34)
ExecutePlanEnter ==
    /\ pc = "p3_call"
    /\ exec_all_results' = <<>>
    /\ k' = 1
    /\ pc' = "execute"
    /\ UNCHANGED << exc, i, all_results, p1_tasks, j, all_queries,
                    tasks_with_queries_map, unique_queries, p3_results, curated_tasks,
                    p3_2_instructions, p4_report, calls, engine_calls, events >>
    /\ UNCHANGED << call_args, call_ret >>

\* execute_plan, lines 36-63: one iteration of the loop over the plan
ExecuteNext ==
    /\ pc = "execute"
    /\ k <= Len(unique_queries)
    /\ LET query_item == unique_queries[k]
           lang == Get(query_item, "lang", "")
           query == Get(query_item, "query", EmptyText)
       IN IF InvalidItem(query_item) \/ AlreadyExecuted(query, exec_all_results)
          THEN UNCHANGED << pc, exc, exec_all_results, calls, events >>
          ELSE \E outcome \in StoreOutcomes(query) :
                 LET handler == BackendFor(lang)
                     answer == CallBackend(handler, outcome)
                     result == RecordedResult(lang, answer)
                 IN /\ calls' = IF handler = "none" THEN calls
                                ELSE Append(calls, [handler |-> handler, query |-> query,
                                                    outcome |-> outcome, by |-> "p3"])
                    /\ events' = Append(events, Event("execute", k))
                    /\ IF "raise" \in DOMAIN result
                       THEN Raise(result.raise) /\ UNCHANGED exec_all_results
                       ELSE /\ exec_all_results' = OdSet(exec_all_results, query, result.ret)
                            /\ UNCHANGED << pc, exc >>
    /\ k' = k + 1
    /\ UNCHANGED << i, all_results, p1_tasks, j, all_queries, tasks_with_queries_map,
                    unique_queries, p3_results, curated_tasks, p3_2_instructions,
                    p4_report, engine_calls >>
    /\ UNCHANGED << call_args, call_ret >>

\* execute_plan returns (lines 65-66; main lines 108-111)
ExecuteReturn ==
    /\ pc = "execute"
    /\ k > Len(unique_queries)
    /\ p3_results' = exec_all_results
    /\ curated_tasks' = <<>>
    /\ j' = 1
    /\ pc' = "curate"
    /\ UNCHANGED << exc, i, all_results, p1_tasks, all_queries, tasks_with_queries_map,
                    unique_queries, k, exec_all_results, p3_2_instructions, p4_report,
                    calls, engine_calls, events >>
    /\ UNCHANGED << call_args, call_ret >>

\* the whole result mapping handed to every task
EvidenceFor_All(queries, results) == results

\* main, line 113: {q['query']: p3_results.get(q['query'], []) for q in queries}
RECURSIVE EvidenceFor(_, _)
EvidenceFor(queries, results) ==
    IF queries = <<>> THEN <<>>
    ELSE LET front == EvidenceFor(SubSeq(queries, 1, Len(queries) - 1), results)
             q == queries[Len(queries)]
         IN OdSet(front, q.query, OdGet(results, q.query, [rows |-> <<>>]))

\* for task_info in tasks_with_queries_map: the loop of lines 112-118 is over
CurateLoopDone == j > Len(tasks_with_queries_map)

\* main, lines 112-118: one task is curated
CurateTask ==
    /\ pc = "curate"
    /\ ~CurateLoopDone
    /\ LET task_info == tasks_with_queries_map[j]
           evidence == EvidenceFor(task_info.queries, p3_results)
           curated == ProcessTask(p1_tasks[task_info.task_data], evidence)
       IN IF "raise" \in DOMAIN curated
          THEN Raise(curated.raise) /\ UNCHANGED curated_tasks
          ELSE /\ curated_tasks' =
                      Append(curated_tasks,
                             [task_data |-> task_info.task_data, evidence |-> evidence,
                              curated_evidence |-> curated.text])
               /\ UNCHANGED << pc, exc >>
    /\ j' = j + 1
    /\ events' = Append(events, Event("curate", j))
    /\ UNCHANGED << i, all_results, p1_tasks, all_queries, tasks_with_queries_map,
                    unique_queries, k, exec_all_results, p3_results, p3_2_instructions,
                    p4_report, calls, engine_calls >>
    /\ UNCHANGED << call_args, call_ret >>

\* main, lines 119-125: the contextual instructions of the case; the case's
\* prescription_orders are read here
RetrieveInstructions ==
    /\ pc = "curate"
    /\ CurateLoopDone
    /\ \E prescriptions \in PrescriptionLists, outcome \in AdminOutcomes,
          api \in EngineApi(P32Contents) :
         LET r == RetrieveInstructionsForCase(prescriptions, outcome, api)
             raised == "raise" \in DOMAIN r
             call == [handler |-> "MySQLHandler.execute_query",
                      query |-> AdminText(prescriptions[1].drug_name),
                      outcome |-> outcome, by |-> "p3_2"]
         IN /\ calls' = IF raised \/ r.store THEN Append(calls, call) ELSE calls
            /\ engine_calls' =
                   IF ~raised /\ r.engine
                   THEN Append(engine_calls,
                               [stage |-> "p3_2", response |-> LLMGenerate(api)])
                   ELSE engine_calls
            /\ IF raised
               THEN Raise(r.raise) /\ UNCHANGED p3_2_instructions
               ELSE pc' = "report" /\ exc' = exc /\ p3_2_instructions' = r.ret
    /\ events' = Append(events, Event("filter", 0))
    /\ UNCHANGED << i, all_results, p1_tasks, j, all_queries, tasks_with_queries_map,
                    unique_queries, k, exec_all_results, p3_results, curated_tasks,
                    p4_report >>
    /\ UNCHANGED << call_args, call_ret >>

\* main, lines 127-142: the report is synthesized and the case's result is
\* appended (generate_audit_report returns {} without an engine call when
\* there is no curated task)
Synthesize ==
    /\ pc = "report"
    /\ IF curated_tasks = <<>>
       THEN /\ p4_report' = [object |-> EmptyDict]
            /\ pc' = "iterate"
            /\ UNCHANGED << exc, engine_calls >>
       ELSE \E api \in EngineApi(P4Contents) :
              LET response == LLMGenerate(api)
                  report == GenerateAuditReport(response)
              IN /\ engine_calls' =
                        Append(engine_calls, [stage |-> "p4", response |-> response])
                 /\ IF "raise" \in DOMAIN report
                    THEN Raise(report.raise) /\ UNCHANGED p4_report
                    ELSE pc' = "iterate" /\ exc' = exc /\ p4_report' = report.ret
    /\ all_results' =
           IF pc' = "raised" THEN all_results
           ELSE Append(all_results,
                       CaseResult({"p1_generated_tasks", "p2_generated_queries",
                                   "p3_execution_results",
                                   "p3_1_curated_tasks_with_evidence",
                                   "p3_2_contextual_instructions",
                                   "p4_llm_generated_report"}))
    /\ events' = Append(events, Event("report", 0))
    /\ UNCHANGED << i, p1_tasks, j, all_queries, tasks_with_queries_map, unique_queries,
                    k, exec_all_results, p3_results, curated_tasks, p3_2_instructions,
                    calls >>
    /\ UNCHANGED << call_args, call_ret >>

\* main, line 77: the loop moves to the next case; the names the finished
\* iteration bound are rebound before they are read again
NextIteration ==
    /\ pc = "iterate"
    /\ i' = i + 1
    /\ pc' = IF i = NumCases THEN "save" ELSE "compile"
    /\ p1_tasks' = <<>>
    /\ j' = 1
    /\ k' = 1
    /\ all_queries' = <<>>
    /\ tasks_with_queries_map' = <<>>
    /\ unique_queries' = <<>>
    /\ exec_all_results' = <<>>
    /\ p3_results' = <<>>
    /\ curated_tasks' = <<>>
    /\ p3_2_instructions' = Unset
    /\ p4_report' = Unset
    /\ calls' = <<>>
    /\ engine_calls' = <<>>
    /\ events' = <<>>
    /\ UNCHANGED << exc, all_results >>
    /\ UNCHANGED << call_args, call_ret >>

\* main, lines 144-151: the aggregate file is written
SaveAll ==
    /\ pc = "save"
    /\ pc' = "done"
    /\ UNCHANGED << exc, i, all_results, p1_tasks, j, all_queries,
                    tasks_with_queries_map, unique_queries, k, exec_all_results,
                    p3_results, curated_tasks, p3_2_instructions, p4_report, calls,
                    engine_calls, events >>
    /\ UNCHANGED << call_args, call_ret >>

Next ==
    \/ CompileTasks
    \/ SkipCase
    \/ StartPlan
    \/ PlanTask
    \/ Dedupe
    \/ ExecutePlanEnter
    \/ ExecuteNext
    \/ ExecuteReturn
    \/ CurateTask
    \/ RetrieveInstructions
    \/ Synthesize
    \/ NextIteration
    \/ SaveAll

\* the batch run of run_audit_pipeline.py
Spec == Init /\ [][Next]_vars

\* execute_plan called on its own with any plan of the wire shape
InitExec ==
    /\ pc = "p3_call"
    /\ exc = ""
    /\ i = 1
    /\ all_results = <<>>
    /\ p1_tasks = <<>>
    /\ j = 1
    /\ all_queries = <<>>
    /\ tasks_with_queries_map = <<>>
    /\ unique_queries \in SeqsUpTo(ExecItems, MaxPlanLen)
    /\ k = 1
    /\ exec_all_results = <<>>
    /\ p3_results = <<>>
    /\ curated_tasks = <<>>
    /\ p3_2_instructions = Unset
    /\ p4_report = Unset
    /\ calls = <<>>
    /\ engine_calls = <<>>
    /\ events = <<>>
    /\ call_args = Unset
    /\ call_ret = <<>>

NextExec ==
    \/ ExecutePlanEnter
    \/ ExecuteNext
    \/ ExecuteReturn

SpecExec == InitExec /\ [][NextExec]_vars

\* ------------------------------------------------------------- the claims
\* the executor's dispatches of a statement text to a store client
Dispatches(text) == { n \in DOMAIN calls : calls[n].by = "p3" /\ calls[n].query = text }

PlannedTexts == { all_queries[n].query : n \in DOMAIN all_queries }

ExecutePlanReturned == pc \in {"curate", "report", "iterate"}

\* C1: within a case, no statement text is dispatched by the executor more
\* than once, only texts the planner produced are dispatched, and once
\* execute_plan has returned every text the planner produced for the case has
\* been dispatched exactly once, to one of the two read methods, however many
\* tasks produced it.
C1_DispatchedExactlyOnce ==
    /\ \A n \in DOMAIN calls :
         calls[n].by = "p3" =>
            /\ calls[n].query \in PlannedTexts
            /\ Cardinality(Dispatches(calls[n].query)) = 1
            /\ calls[n].handler \in {"MySQLHandler.execute_query", "Neo4jHandler.execute_read"}
    /\ ExecutePlanReturned =>
          \A text \in PlannedTexts : Cardinality(Dispatches(text)) = 1

\* a case whose tasks produced the same text twice, executed
C1_Witness ==
    /\ ExecutePlanReturned
    /\ \E m, n \in DOMAIN all_queries : m < n /\ all_queries[m].query = all_queries[n].query
    /\ Len(p1_tasks) = 2
    /\ \A text \in PlannedTexts : Cardinality(Dispatches(text)) = 1

\* --- execute_plan on any plan (SpecExec)
Lang(item) == Get(item, "lang", "")
Text(item) == Get(item, "query", EmptyText)

Supported(lang) == lang \in {"sql", "cypher"}

\* the answer the store client gave to the executor's dispatch of a text
AnswerFor(text) ==
    LET n == CHOOSE m \in Dispatches(text) : TRUE
    IN CallBackend(calls[n].handler, calls[n].outcome)

IsError(entry) == "error" \in DOMAIN entry

\* the statement of C2 as written: every item of the plan has an entry, an
\* error descriptor exactly if its lang tag is neither sql nor cypher or its
\* backend call raised, and the backend's rows otherwise
C2_ErrorExactlyForFailing ==
    pc = "curate" =>
       \A n \in DOMAIN unique_queries :
          LET item == unique_queries[n]
              failing == \/ ~Supported(Lang(item))
                         \/ /\ Dispatches(Text(item)) # {}
                            /\ "raise" \in DOMAIN AnswerFor(Text(item))
          IN /\ OdHas(p3_results, Text(item))
             /\ IsError(OdGet(p3_results, Text(item), [rows |-> <<>>])) <=> failing

\* the item of the plan that decides a text's entry: the first one with that
\* text that has a lang tag
FirstValid(text) ==
    CHOOSE n \in DOMAIN unique_queries :
       /\ ~InvalidItem(unique_queries[n]) /\ Text(unique_queries[n]) = text
       /\ \A m \in 1..(n - 1) :
             InvalidItem(unique_queries[m]) \/ Text(unique_queries[m]) # text

ValidTexts ==
    { Text(unique_queries[n]) : n \in { m \in DOMAIN unique_queries : ~InvalidItem(unique_queries[m]) } }

\* C2 (amended): execute_plan never raises; an item without a lang tag or
\* without a text gets no entry; every other text of the plan gets one entry,
\* decided by the first item that carries it: an error descriptor if that
\* item's tag is neither sql nor cypher or if its backend call raised, the
\* rows the backend returned otherwise; a text is dispatched at most once, and
\* every supported text is dispatched also when an earlier item failed.
C2_Amended ==
    /\ pc # "raised"
    /\ \A n \in DOMAIN calls : Cardinality(Dispatches(calls[n].query)) = 1
    /\ pc = "curate" =>
          /\ OdKeys(p3_results) = ValidTexts
          /\ \A text \in ValidTexts :
                LET lang == Lang(unique_queries[FirstValid(text)])
                    entry == OdGet(p3_results, text, [none |-> TRUE])
                IN IF ~Supported(lang)
                   THEN IsError(entry) /\ Dispatches(text) = {}
                   ELSE /\ Cardinality(Dispatches(text)) = 1
                        /\ LET answer == AnswerFor(text)
                           IN IF "raise" \in DOMAIN answer
                              THEN entry = [error |-> answer.raise]
                              ELSE entry = [rows |-> answer.ret]

\* a plan whose first statement's backend call raised, followed by a skipped
\* item and by a statement that returned its row
C2_Witness ==
    /\ pc = "curate"
    /\ Len(unique_queries) = 3
    /\ ~InvalidItem(unique_queries[1])
    /\ IsError(OdGet(p3_results, Text(unique_queries[1]), [rows |-> <<>>]))
    /\ Lang(unique_queries[1]) = "sql"
    /\ InvalidItem(unique_queries[2])
    /\ ~OdHas(p3_results, Text(unique_queries[2]))
    /\ ~InvalidItem(unique_queries[3])
    /\ "rows" \in DOMAIN OdGet(p3_results, Text(unique_queries[3]), [none |-> TRUE])
    /\ OdGet(p3_results, Text(unique_queries[3]), [rows |-> <<>>]).rows # <<>>

\* C3: a statement whose query failed inside the store client is recorded
\* with an error descriptor, never as a (possibly empty) row sequence.
C3_FailureRecordedAsError ==
    \A n \in DOMAIN calls :
       (calls[n].by = "p3" /\ "rows" \notin DOMAIN calls[n].outcome)
          => IsError(OdGet(exec_all_results, calls[n].query, [error |-> "pending"]))

\* --- the batch run (Spec)
\* C4: the per-case loop never raises, and when the batch is done the
\* aggregate list has one entry per case, in input order.
C4_BatchCompletes ==
    /\ pc # "raised"
    /\ pc = "done" =>
          /\ Len(all_results) = NumCases
          /\ \A n \in DOMAIN all_results : all_results[n].case_id = n

DegenerateResult == [case_id |-> i, pipeline_results |-> {"p1_generated_tasks"}]

\* C5: when the compiler returned no task, the next step of the runner
\* appends the case's degenerate result and nothing else; no store call and
\* no engine call other than the compiler's was made for the case, none is
\* made afterwards, and the step after that takes the next case (or saves the
\* batch after the last one); the run is not ended by an exception.
C5_EmptyTaskListSkipsCase ==
    [][ /\ (pc = "p1_returned" /\ p1_tasks = <<>>) =>
             /\ all_results' = Append(all_results, DegenerateResult)
             /\ calls = <<>> /\ calls' = <<>>
             /\ Len(engine_calls) = 1 /\ engine_calls[1].stage = "p1"
             /\ engine_calls' = engine_calls
             /\ pc' = "iterate" /\ exc' = ""
        /\ (pc = "iterate" /\ p1_tasks = <<>>) =>
             /\ i' = i + 1
             /\ pc' = IF i < NumCases THEN "compile" ELSE "save"
             /\ all_results' = all_results
             /\ calls = <<>> /\ Len(engine_calls) = 1
      ]_vars

\* the second case's tasks are compiled after the first case was skipped
C5_Witness ==
    /\ i = 2
    /\ pc = "p1_returned"
    /\ all_results = << [case_id |-> 1, pipeline_results |-> {"p1_generated_tasks"}] >>

Deduped == pc \in {"p3_call", "execute", "curate", "report", "iterate"} /\ p1_tasks # <<>>

FirstIndex(seq, text) == CHOOSE n \in DOMAIN seq : seq[n].query = text /\ \A m \in 1..(n - 1) : seq[m].query # text

TaskPlanTexts ==
    UNION { { tasks_with_queries_map[n].queries[m].query :
                 m \in DOMAIN tasks_with_queries_map[n].queries } :
            n \in DOMAIN tasks_with_queries_map }

RECURSIVE SumPlans(_)
SumPlans(n) == IF n = 0 THEN 0 ELSE SumPlans(n - 1) + Len(tasks_with_queries_map[n].queries)

\* C6: once the plans of a case are deduplicated, the unique list has no two
\* entries with the same text, its texts are exactly the texts of the tasks'
\* plans, it is no longer than the plans together, and its texts stand in
\* the order of their first occurrence in the concatenated plans.
C6_UniqueStatements ==
    Deduped =>
       /\ \A a, b \in DOMAIN unique_queries :
             unique_queries[a].query = unique_queries[b].query => a = b
       /\ { unique_queries[n].query : n \in DOMAIN unique_queries } = TaskPlanTexts
       /\ TaskPlanTexts = PlannedTexts
       /\ Len(unique_queries) <= SumPlans(Len(tasks_with_queries_map))
       /\ SumPlans(Len(tasks_with_queries_map)) = Len(all_queries)
       /\ \A a, b \in DOMAIN unique_queries :
             a < b => FirstIndex(all_queries, unique_queries[a].query)
                         < FirstIndex(all_queries, unique_queries[b].query)

\* two tasks whose plans share a text and hold another one
C6_Witness ==
    /\ Deduped
    /\ Len(unique_queries) >= 2
    /\ Len(unique_queries) < Len(all_queries)

StageRank(stage) ==
    CASE stage = "compile" -> 1
      [] stage = "plan" -> 2
      [] stage = "dedupe" -> 3
      [] stage = "execute" -> 4
      [] stage = "curate" -> 5
      [] stage = "filter" -> 6
      [] stage = "report" -> 7

Happened(stage) == \E n \in DOMAIN events : events[n].stage = stage

StepsOf(stage) == { events[n].n : n \in { m \in DOMAIN events : events[m].stage = stage } }

\* C7: the steps of a case happen in the order compile, plan, dedupe,
\* execute, curate, filter, report; a statement is executed only after every
\* task of the case is planned, a task is curated only after execute_plan
\* returned, the report is made only after every task is curated and the
\* filter returned, and a case's steps happen only after the results of all
\* earlier cases are appended.
C7_StagesInOrder ==
    /\ \A a, b \in DOMAIN events :
          a < b => StageRank(events[a].stage) <= StageRank(events[b].stage)
    /\ events # <<>> => events[1].stage = "compile"
    /\ \A n \in DOMAIN events :
          /\ events[n].case = i
          /\ Len(all_results) = IF pc = "iterate" THEN i ELSE i - 1
    /\ Happened("execute") =>
          /\ StepsOf("plan") = DOMAIN p1_tasks
          /\ Len(tasks_with_queries_map) = Len(p1_tasks)
          /\ Happened("dedupe")
    /\ Happened("curate") =>
          /\ k > Len(unique_queries)
          /\ p3_results = exec_all_results
          /\ StepsOf("plan") = DOMAIN p1_tasks
    /\ Happened("report") =>
          /\ StepsOf("curate") = DOMAIN p1_tasks
          /\ Happened("filter")
          /\ p3_2_instructions # Unset

\* the second case's report is made, after two tasks and two statements
C7_Witness ==
    /\ i = 2
    /\ Len(all_results) = 2
    /\ Happened("report")
    /\ StepsOf("plan") = {1, 2}
    /\ Cardinality(StepsOf("execute")) >= 2

PlanTextsOf(n) ==
    { tasks_with_queries_map[n].queries[m].query : m \in DOMAIN tasks_with_queries_map[n].queries }

\* C8: the evidence of a curated task has exactly the texts of the plan made
\* for that task as its keys, each with the entry execute_plan returned for
\* that text.
C8_EvidenceIsOwnPlan ==
    \A n \in DOMAIN curated_tasks :
       /\ curated_tasks[n].task_data = n
       /\ tasks_with_queries_map[n].task_data = n
       /\ tasks_with_queries_map[n].queries = GenerateQueriesForTask(p1_tasks[n])
       /\ OdKeys(curated_tasks[n].evidence) = PlanTextsOf(n)
       /\ \A text \in PlanTextsOf(n) :
             /\ OdHas(p3_results, text)
             /\ OdGet(curated_tasks[n].evidence, text, [none |-> TRUE])
                   = OdGet(p3_results, text, [missing |-> TRUE])

\* two curated tasks that share a text, one of them with a text of its own
C8_Witness ==
    /\ Len(curated_tasks) = 2
    /\ PlanTextsOf(1) \cap PlanTextsOf(2) # {}
    /\ PlanTextsOf(1) # PlanTextsOf(2)

\* C9: every store call of a case is Neo4jHandler.execute_read or
\* MySQLHandler.execute_query; the executor sends a statement tagged sql to
\* the relational method and a statement tagged cypher to the graph method.
C9_ReadOnlyBackends ==
    \A n \in DOMAIN calls :
       /\ calls[n].handler \in {"MySQLHandler.execute_query", "Neo4jHandler.execute_read"}
       /\ calls[n].by = "p3" =>
             \E m \in DOMAIN unique_queries :
                /\ unique_queries[m].query = calls[n].query
                /\ unique_queries[m].lang = "sql"
                      <=> calls[n].handler = "MySQLHandler.execute_query"
                /\ unique_queries[m].lang = "cypher"
                      <=> calls[n].handler = "Neo4jHandler.execute_read"

\* a case with a graph dispatch, a relational dispatch and the filter's query
C9_Witness ==
    /\ \E n \in DOMAIN calls : calls[n].by = "p3" /\ calls[n].handler = "Neo4jHandler.execute_read"
    /\ \E n \in DOMAIN calls : calls[n].by = "p3" /\ calls[n].handler = "MySQLHandler.execute_query"
    /\ \E n \in DOMAIN calls : calls[n].by = "p3_2"

ResponseTo(stage) ==
    engine_calls[CHOOSE n \in DOMAIN engine_calls : engine_calls[n].stage = stage].response

Asked(stage) == \E n \in DOMAIN engine_calls : engine_calls[n].stage = stage

\* C10: no run ends with the JSON parse error of an engine response; after a
\* response that is not JSON the compiler's task list is empty, the
\* filter's text is its error string, and the report is the object with the
\* error message and the raw response.
C10_NonJsonResponseContained ==
    /\ exc # "JSONDecodeError"
    /\ (Asked("p1") /\ NotJson(ResponseTo("p1"))) => (p1_tasks = <<>> /\ pc # "raised")
    /\ (Asked("p3_2") /\ NotJson(ResponseTo("p3_2"))) =>
          (p3_2_instructions = SelectionFailed /\ pc # "raised")
    /\ (Asked("p4") /\ NotJson(ResponseTo("p4"))) =>
          /\ p4_report = [error |-> "LLM response was not valid JSON.",
                          raw_response |-> ResponseTo("p4").text]
          /\ pc # "raised"

\* a case whose filter and report responses were both not JSON
C10_Witness ==
    /\ pc = "iterate"
    /\ Asked("p3_2") /\ NotJson(ResponseTo("p3_2"))
    /\ Asked("p4") /\ NotJson(ResponseTo("p4"))
    /\ "error" \in DOMAIN p4_report

\* the value of a response that json.loads accepts
IsArray(response) == ~NotJson(response) /\ "array" \in DOMAIN response.json

IsObject(response) == ~NotJson(response) /\ "object" \in DOMAIN response.json

\* C11: a response that is JSON but not of the stage's schema gives the
\* stage's empty or failed result: no array in the compiler gives no task,
\* no array (of strings) in the tag selection gives the filter's error
\* string, and no object in the report synthesis gives a report that carries
\* the error flag.
C11_SchemaMismatchContained ==
    /\ (Asked("p1") /\ ~NotJson(ResponseTo("p1")) /\ ~IsArray(ResponseTo("p1"))) =>
          p1_tasks = <<>>
    /\ (Asked("p3_2") /\ ~NotJson(ResponseTo("p3_2")) /\ ~IsArray(ResponseTo("p3_2"))) =>
          p3_2_instructions = SelectionFailed
    /\ (Asked("p4") /\ ~NotJson(ResponseTo("p4")) /\ ~IsObject(ResponseTo("p4"))) =>
          "error" \in DOMAIN p4_report

\* the task objects as the compiler returned them
CompiledTasks ==
    IF IsArray(ResponseTo("p1")) THEN ResponseTo("p1").json.array ELSE <<>>

\* C16: from the compiler's return to the end of the case, the task objects
\* are the ones the compiler returned.
C16_TasksNotMutated ==
    (Asked("p1") /\ pc # "compile") => p1_tasks = CompiledTasks

\* ------------------------------------ generate_queries_for_task on its own
\* number of calls made on one task object
MaxRuns == 2

Absent == [absent |-> TRUE]

\* JSON null
Null == [null |-> TRUE]

RiskTokens ==
    {"INDICATION_MISMATCH", "INTERACTION_DRUG_DRUG", "ALLERGY_CONFLICT",
     "CONTRAINDICATION_CONDITION", "DOSAGE_OVER", "FREQUENCY_ERROR", "ROUTE_ERROR",
     "DOSE_ADJUSTMENT_MISSED", "UNKNOWN_RISK"}

\* the riskType values of a task: no key, [], "", a token, a list of tokens
RiskTypeShapes ==
    {Absent, List(<<>>), Str("")}
    \cup { Str(t) : t \in RiskTokens }
    \cup { List(<< t >>) : t \in RiskTokens }
    \cup { List(<<"UNKNOWN_RISK", "DOSAGE_OVER">>),
           List(<<"INDICATION_MISMATCH", "DOSAGE_OVER">>) }

PatientInfos ==
    { EmptyDict, [gender |-> "F"], [age |-> [num |-> 40]], [weight |-> [num |-> 60]],
      [gender |-> "F", pregnancy_status |-> "pregnant"],
      [gender |-> "", pregnancy_status |-> "not_pregnant", lactation_status |-> "lactating"],
      [organ_function |-> [renal_impairment |-> "moderate", hepatic_impairment |-> LevelNone]],
      [organ_function |-> [hepatic_impairment |-> "moderate"]],
      [age |-> [num |-> 40], organ_function |-> EmptyDict] }

\* the params values of a task: no key, null, {}, with and without the
\* parameters the generators read
ParamsShapes ==
    { Absent, Null, EmptyDict, [drug_name |-> DrugA], [drug_name |-> <<>>],
      [drug_pair |-> <<DrugA, DrugB>>], [drug_pair |-> <<DrugB, DrugA>>],
      [drug_pair |-> << DrugA >>], [drug_pair |-> <<DrugA, DrugB, DrugA>>],
      [drug_pair |-> <<>>], [patient_info |-> [gender |-> "F"]] }
    \cup { [drug_name |-> DrugA, patient_info |-> pi] : pi \in PatientInfos }

MkTask(risk, params) ==
    IF risk = Absent /\ params = Absent THEN EmptyDict
    ELSE IF risk = Absent THEN [params |-> params]
    ELSE IF params = Absent THEN [riskType |-> risk]
    ELSE [riskType |-> risk, params |-> params]

PlanTasks == { MkTask(r, p) : r \in RiskTypeShapes, p \in ParamsShapes }

\* the dispatch of lines 45-59 reaches a generator, which reads params
ReachesGenerator(task) ==
    LET risk_type == Get(NormalizeRiskType(task), "riskType", List(<<>>)).list
    IN /\ risk_type # <<>>
       /\ \/ risk_type[1] \in {"INDICATION_MISMATCH", "INTERACTION_DRUG_DRUG",
                               "ALLERGY_CONFLICT", "CONTRAINDICATION_CONDITION"}
          \/ \E n \in DOMAIN risk_type :
                \E marker \in {"DOSAGE", "FREQUENCY", "ROUTE", "DOSE_ADJUSTMENT"} :
                   MarkerIn(marker, risk_type[n])

\* params.get on None: task.get('params', {}) is None for "params": null
PlannerRaises(task) ==
    "params" \in DOMAIN task /\ task.params = Null /\ ReachesGenerator(task)

Idle ==
    /\ exc = ""
    /\ i = 1
    /\ all_results = <<>>
    /\ p1_tasks = <<>>
    /\ j = 1
    /\ all_queries = <<>>
    /\ tasks_with_queries_map = <<>>
    /\ unique_queries = <<>>
    /\ k = 1
    /\ exec_all_results = <<>>
    /\ p3_results = <<>>
    /\ curated_tasks = <<>>
    /\ p3_2_instructions = Unset
    /\ p4_report = Unset
    /\ calls = <<>>
    /\ engine_calls = <<>>
    /\ events = <<>>

main_vars ==
    << i, all_results, p1_tasks, j, all_queries, tasks_with_queries_map,
       unique_queries, k, exec_all_results, p3_results, curated_tasks,
       p3_2_instructions, p4_report, calls, engine_calls, events >>

InitPlan ==
    /\ Idle
    /\ pc = "p2_call"
    /\ call_args \in PlanTasks
    /\ call_ret = <<>>

\* one call of generate_queries_for_task on the task object; the object
\* keeps what lines 34-35 assign to it
PlanCall ==
    /\ pc = "p2_call"
    /\ Len(call_ret) < MaxRuns
    /\ call_args' = NormalizeRiskType(call_args)
    /\ IF PlannerRaises(call_args)
       THEN Raise("AttributeError") /\ UNCHANGED call_ret
       ELSE /\ call_ret' = Append(call_ret, [task |-> call_args,
                                             plan |-> GenerateQueriesForTask(call_args)])
            /\ UNCHANGED << pc, exc >>
    /\ UNCHANGED main_vars

NextPlan == PlanCall

SpecPlan == InitPlan /\ [][NextPlan]_vars

\* ------------------------------------------------- claims on the planner
\* the parameters a task carries: none when params is missing or null
ParamsOf(task) ==
    IF "params" \in DOMAIN task /\ task.params # Null THEN task.params ELSE EmptyDict

RiskList(task) == Get(NormalizeRiskType(task), "riskType", List(<<>>)).list

DosageCategory(task) ==
    /\ RiskList(task) # <<>>
    /\ RiskList(task)[1] \notin {"INDICATION_MISMATCH", "INTERACTION_DRUG_DRUG",
                                 "ALLERGY_CONFLICT", "CONTRAINDICATION_CONDITION"}
    /\ ReachesGenerator(task)

\* riskType missing, empty or unknown; no drug_name where the category needs
\* one; no drug_pair of length 2 where the category is the interaction
Degenerate(task) ==
    \/ RiskList(task) = <<>>
    \/ ~ReachesGenerator(task)
    \/ /\ RiskList(task)[1] = "INTERACTION_DRUG_DRUG"
       /\ \/ Falsy(ParamsOf(task), "drug_pair")
          \/ Len(ParamsOf(task).drug_pair) # 2
    \/ /\ RiskList(task)[1] # "INTERACTION_DRUG_DRUG"
       /\ Falsy(ParamsOf(task), "drug_name")

\* C12: a call of generate_queries_for_task on a task whose riskType is
\* missing, empty or unknown, whose params lack drug_name, or whose drug_pair
\* is absent or not of length 2, does not raise and returns the empty plan.
C12_DegenerateTaskEmptyPlan ==
    Degenerate(call_args) =>
        /\ exc = ""
        /\ \A n \in DOMAIN call_ret : call_ret[n].plan = <<>>

\* the plan the categories prescribe for a task with its parameters present
ShapeOk(task, plan) ==
    LET main == RiskList(task)[1]
        params == ParamsOf(task)
    IN CASE main = "INDICATION_MISMATCH" ->
              /\ Len(plan) = 1
              /\ plan[1].lang = "cypher"
              /\ plan[1].query.drug = params.drug_name
         [] main = "INTERACTION_DRUG_DRUG" ->
              /\ Len(plan) = 2
              /\ \A n \in 1..2 :
                    /\ plan[n].lang = "sql"
                    /\ plan[n].query = [pre |-> InteractionPre,
                                        drug |-> params.drug_pair[n], post |-> "';"]
         [] main = "ALLERGY_CONFLICT" ->
              /\ Len(plan) = 2
              /\ plan[1].lang = "cypher"
              /\ plan[2].lang = "sql"
              /\ plan[1].query.drug = params.drug_name
              /\ plan[2].query.drug = params.drug_name
         [] DosageCategory(task) ->
              /\ Len(plan) = 1
              /\ plan[1].lang = "sql"
              /\ plan[1].query = [pre |-> DosagePre, drug |-> params.drug_name,
                                  post |-> "';"]
         [] OTHER -> TRUE

\* C13: with the required parameters present, an indication task gets one
\* cypher statement, an interaction task two sql statements with drug 1 and
\* then drug 2 as precipitant, an allergy task one cypher and one sql
\* statement for the same drug, and a dosage, frequency, route or
\* dose-adjustment task one sql statement over all dosage rules of the drug.
C13_PlanShapePerCategory ==
    \A n \in DOMAIN call_ret :
        ~Degenerate(call_ret[n].task) => ShapeOk(call_ret[n].task, call_ret[n].plan)

C13_Witness ==
    \E n \in DOMAIN call_ret :
        /\ RiskList(call_ret[n].task) = << "INTERACTION_DRUG_DRUG" >>
        /\ ParamsOf(call_ret[n].task) = [drug_pair |-> <<DrugA, DrugB>>]
        /\ Len(call_ret[n].plan) = 2

OtherConditions(drug) == Sql(ContraText(drug, "' AND other_conditions IS NOT NULL;"))

IsContraTask(task) ==
    /\ RiskList(task) # <<>>
    /\ RiskList(task)[1] = "CONTRAINDICATION_CONDITION"
    /\ ~Falsy(ParamsOf(task), "drug_name")

\* C14: the plan of a contraindication task that has a drug name contains
\* the base query with the other_conditions clause, and for an empty
\* patient_info the plan is that one statement.
C14_OtherConditionsAlways ==
    \A n \in DOMAIN call_ret :
        IsContraTask(call_ret[n].task) =>
            LET params == ParamsOf(call_ret[n].task)
                plan == call_ret[n].plan
            IN /\ \E m \in DOMAIN plan : plan[m] = OtherConditions(params.drug_name)
               /\ Get(params, "patient_info", Absent) = EmptyDict => Len(plan) = 1

PlanSet(n) == { call_ret[n].plan[m] : m \in DOMAIN call_ret[n].plan }

\* C15: two calls of generate_queries_for_task on one task object return the
\* same set of statements, also when the first call found a scalar riskType.
C15_SecondRunSameStatements ==
    Len(call_ret) >= 2 => PlanSet(1) = PlanSet(2)

C15_Witness ==
    /\ Len(call_ret) = 2
    /\ "riskType" \in DOMAIN call_ret[1].task
    /\ "str" \in DOMAIN call_ret[1].task.riskType
    /\ "list" \in DOMAIN call_ret[2].task.riskType
    /\ call_ret[1].plan # <<>>

\* ---------------------------------------- _get_base_drug_name on its own
\* characters of a drug name
MaxNameLen == 4

\* the characters of the names: one that is in no suffix, and the characters
\* of the suffixes pian, jiao nang, huan shi pian, chang rong pian,
\* huan shi jiao nang
NameChars == {"a", "pian", "jiao", "nang", "huan", "shi", "chang", "rong"}

DrugNames == SeqsUpTo(NameChars, MaxNameLen)

InitBase ==
    /\ Idle
    /\ pc = "base_call"
    /\ call_args \in DrugNames
    /\ call_ret = <<>>

\* one call of _get_base_drug_name on a str
ExtractBase ==
    /\ pc = "base_call"
    /\ pc' = "base_returned"
    /\ call_ret' = GetBaseDrugName(call_args)
    /\ UNCHANGED << exc, call_args >>
    /\ UNCHANGED main_vars

NextBase == ExtractBase

SpecBase == InitBase /\ [][NextBase]_vars

\* the name without the longest suffix of the list it ends with
WithoutLongestSuffix(name) ==
    LET hits == { n \in DOMAIN Suffixes : EndsWith(name, Suffixes[n]) }
    IN IF hits = {} THEN name
       ELSE LET longest == CHOOSE n \in hits :
                               \A m \in hits : Len(Suffixes[m]) <= Len(Suffixes[n])
            IN SubSeq(name, 1, Len(name) - Len(Suffixes[longest]))

\* C17: _get_base_drug_name returns the name without the longest suffix of
\* the list that the name ends with (a name ending in chang rong pian loses
\* all three characters), and returns a name that ends with none unchanged.
C17_LongestSuffixStripped ==
    pc = "base_returned" => call_ret = WithoutLongestSuffix(call_args)

\* ------------------------------------------------- process_task on its own
\* rows of one statement's result
MaxRows == 2

\* rows of dosage_rules: two standard rules, a rule for the patient's renal
\* level, a rule with other_conditions only, a rule for ages from 50, a rule
\* for ages up to 0, a rule whose notes column is NULL
DosageRules ==
    { DosageRuleRow,
      [DosageRuleRow EXCEPT !.source_text = << <<3>> >>],
      [DosageRuleRow EXCEPT !.renal_impairment = << "moderate" >>,
                            !.source_text = << <<4>> >>],
      [DosageRuleRow EXCEPT !.other_conditions = << "with drug b" >>,
                            !.source_text = << <<5>> >>],
      [DosageRuleRow EXCEPT !.age_max_years = << 0 >>, !.source_text = << <<8>> >>],
      [DosageRuleRow EXCEPT !.age_min_years = << 50 >>, !.source_text = << <<6>> >>],
      [DosageRuleRow EXCEPT !.notes = <<>>, !.source_text = << <<7>> >>] }

\* rows of contraindication_rules: two rows with one source_text, a longer
\* text that sorts before it, a row whose source_text is NULL
ContraindicationRules ==
    { [source_text |-> << <<2>> >>, sex |-> << "F" >>],
      [source_text |-> << <<2>> >>, sex |-> << "M" >>],
      [source_text |-> << <<1, 3>> >>, sex |-> <<>>],
      [source_text |-> <<>>, sex |-> <<>>] }

\* what execute_plan records for a statement: a row list or an error descriptor
ResultsOver(rows) ==
    { [rows |-> r] : r \in SeqsUpTo(rows, MaxRows) } \cup { [error |-> "store error"] }

\* the statement -> result mappings of one or two statements
EvidencesOver(rows) ==
    { <<>> }
    \cup { << [k |-> EmptyText, v |-> a] >> : a \in ResultsOver(rows) }
    \cup { << [k |-> EmptyText, v |-> a], [k |-> ContraText(DrugA, "'"), v |-> b] >> :
             a \in ResultsOver(rows), b \in ResultsOver(rows) }

RenalPatient ==
    [age |-> [num |-> 40], organ_function |-> [renal_impairment |-> "moderate"]]

DosageTasks ==
    { Task(List(<<"DOSAGE_OVER">>), [drug_name |-> DrugA, patient_info |-> RenalPatient]),
      Task(List(<<"DOSE_ADJUSTMENT_MISSED">>),
           [drug_name |-> DrugA, patient_info |-> RenalPatient]),
      Task(List(<<"DOSAGE_OVER">>),
           [context |-> [diagnoses |-> << <<1>> >>],
            patient_info |-> [organ_function |-> [renal_impairment |-> LevelNone,
                                                  hepatic_impairment |-> LevelNone]]]) }

ContraindicationTasks ==
    { Task(List(<<"CONTRAINDICATION_CONDITION">>), [drug_name |-> DrugA]),
      Task(List(<<"CONTRAINDICATION_CONDITION">>), EmptyDict) }

\* rows of interaction_details: a tablet of a as precipitant of b, the
\* combination ab as precipitant of a, b with a among the examples of its
\* target, a rule between other drugs
InteractionRules ==
    { [precipitant_drug_name |-> << <<"a", "pian">> >>, affected_target_name |-> << DrugB >>,
       affected_target_examples |-> <<>>, source_text |-> << <<1>> >>],
      [precipitant_drug_name |-> << <<"a", "b">> >>, affected_target_name |-> << DrugA >>,
       affected_target_examples |-> <<>>, source_text |-> << <<2>> >>],
      [precipitant_drug_name |-> << DrugB >>, affected_target_name |-> << <<"c">> >>,
       affected_target_examples |-> << [list |-> << DrugA >>] >>,
       source_text |-> << <<3>> >>],
      [precipitant_drug_name |-> << <<"c">> >>, affected_target_name |-> << <<"d">> >>,
       affected_target_examples |-> <<>>, source_text |-> << <<4>> >>] }

\* the pairs (a, b), (b, a) and (a, ab)
InteractionTasks ==
    { Task(List(<<"INTERACTION_DRUG_DRUG">>), [drug_pair |-> <<DrugA, DrugB>>]),
      Task(List(<<"INTERACTION_DRUG_DRUG">>), [drug_pair |-> <<DrugB, DrugA>>]),
      Task(List(<<"INTERACTION_DRUG_DRUG">>), [drug_pair |-> <<DrugA, <<"a", "b">> >>]) }

\* tasks of the other branches and of none, with and without a riskType
OtherTasks ==
    { Task(List(<<"INDICATION_MISMATCH">>), EmptyDict),
      Task(List(<<"INDICATION_MISMATCH">>), [drug_name |-> DrugA]),
      Task(List(<<"ALLERGY_CONFLICT">>), EmptyDict),
      Task(List(<<"ALLERGY_CONFLICT">>), [drug_name |-> DrugA]),
      Task(List(<<"INTERACTION_DRUG_DRUG">>), [drug_pair |-> <<DrugA, DrugB>>]),
      Task(List(<<"FREQUENCY_ERROR">>), [drug_name |-> DrugA]),
      Task(List(<<"UNKNOWN_RISK">>), [drug_name |-> DrugA]),
      Task(Str("DOSAGE_OVER"), [drug_name |-> DrugA]),
      Task(Str(""), [drug_name |-> DrugA]),
      Task(List(<<>>), [drug_name |-> DrugA]),
      [params |-> [drug_name |-> DrugA]] }

Inputs(tasks, rows) ==
    { [task_data |-> t, evidence |-> e] : t \in tasks, e \in EvidencesOver(rows) }

InitCurate ==
    /\ Idle
    /\ pc = "p31_call"
    /\ \/ call_args \in Inputs(DosageTasks, DosageRules)
       \/ call_args \in Inputs(ContraindicationTasks, ContraindicationRules)
       \/ call_args \in Inputs(InteractionTasks, InteractionRules)
       \/ call_args \in Inputs(OtherTasks, {})
    /\ call_ret = <<>>

\* one call of process_task: curated_evidence is attached, or it raises
ProcessTaskCall ==
    /\ pc = "p31_call"
    /\ LET curated == ProcessTask(call_args.task_data, call_args.evidence)
       IN IF "raise" \in DOMAIN curated
          THEN Raise(curated.raise) /\ UNCHANGED call_ret
          ELSE /\ pc' = "p31_returned"
               /\ call_ret' = curated.text
               /\ UNCHANGED exc
    /\ UNCHANGED call_args
    /\ UNCHANGED main_vars

NextCurate == ProcessTaskCall

SpecCurate == InitCurate /\ [][NextCurate]_vars

\* ------------------------------------------------- claims on the curator
Returned == pc = "p31_returned"

FirstToken(task_data) == task_data.riskType.list[1]

HasFirstToken(task_data) ==
    /\ "riskType" \in DOMAIN task_data
    /\ "list" \in DOMAIN task_data.riskType
    /\ task_data.riskType.list # <<>>

RankedRules ==
    /\ Returned
    /\ HasFirstToken(call_args.task_data)
    /\ FirstToken(call_args.task_data) \in {"DOSAGE_OVER", "DOSE_ADJUSTMENT_MISSED"}
    /\ "lines" \in DOMAIN call_ret

\* C18: a dosage rendering shows at most 3 ranked rules, their scores do not
\* increase along the rendering, and the shown rules are rows of the task's
\* flattened results such that, of two with the same score, the one that was
\* flattened first comes first.
C18_TopThreeStableDescending ==
    RankedRules =>
        LET rows == FlattenRows(call_args.evidence)
            lines == call_ret.lines
        IN /\ Len(lines) <= 3
           /\ \A n \in DOMAIN lines : \A m \in DOMAIN lines :
                 n < m => lines[n].score >= lines[m].score
           /\ \E at \in [DOMAIN lines -> DOMAIN rows] :
                 /\ \A n \in DOMAIN lines : rows[at[n]] = lines[n].rule
                 /\ \A n \in DOMAIN lines : \A m \in DOMAIN lines :
                       (n < m /\ lines[n].score = lines[m].score) => at[n] < at[m]

C18_Witness ==
    /\ RankedRules
    /\ Len(FlattenRows(call_args.evidence)) = 4
    /\ Len(call_ret.lines) = 3
    /\ call_ret.lines[1].score > call_ret.lines[2].score
    /\ call_ret.lines[2].score = call_ret.lines[3].score
    /\ call_ret.lines[2].rule # call_ret.lines[3].rule

ContraRendering ==
    /\ Returned
    /\ HasFirstToken(call_args.task_data)
    /\ FirstToken(call_args.task_data) = "CONTRAINDICATION_CONDITION"
    /\ FlattenRows(call_args.evidence) # <<>>

\* the text of a source_text column; NULL is rendered as one text of its own
TextOf(col) == IF col = <<>> THEN <<>> ELSE col[1]

\* C19: when a contraindication task with at least one result row is
\* rendered, the lines are the distinct source_text values of the rows, one
\* line each (rows that differ only in other columns share a line), in
\* lexicographic order.
C19_DistinctSortedSentences ==
    ContraRendering =>
        LET rows == FlattenRows(call_args.evidence)
            lines == call_ret.lines
        IN /\ Range(lines) = { TextOf(rows[n].source_text) : n \in DOMAIN rows }
           /\ \A n \in DOMAIN lines : \A m \in DOMAIN lines :
                 n < m => lines[n] # lines[m] /\ LexLess(lines[n], lines[m])

C19_Witness ==
    /\ ContraRendering
    /\ Len(call_ret.lines) = 2
    /\ LET rows == FlattenRows(call_args.evidence)
       IN \E p \in DOMAIN rows : \E q \in DOMAIN rows :
             rows[p] # rows[q] /\ rows[p].source_text = rows[q].source_text

GenericMessage == [msg |-> "no rule for this risk type"]

\* the first risk token takes none of the five branches
NoBranch(task_data) ==
    /\ HasFirstToken(task_data)
    /\ FirstToken(task_data) \notin
          {"DOSAGE_OVER", "DOSE_ADJUSTMENT_MISSED", "INDICATION_MISMATCH",
           "INTERACTION_DRUG_DRUG", "ALLERGY_CONFLICT", "CONTRAINDICATION_CONDITION"}

\* C20: process_task does not raise, whatever the task and the statement ->
\* result mapping (NULL columns, empty lists, error descriptors, params
\* without drug_name); the text it attaches is not empty, and is the generic
\* message when the first risk token takes none of the five branches.
C20_CuratedTextNeverRaises ==
    /\ exc = ""
    /\ Returned =>
          /\ call_ret # <<>>
          /\ call_ret.msg # ""
          /\ NoBranch(call_args.task_data) => call_ret = GenericMessage

\* ------------------------- retrieve_instructions_for_case on its own
\* rows of administration_texts the store returns for one drug
MaxRecords == 2

\* rows whose tags column is NULL, [], or a list of the tags t1 and t2
FilterRecords ==
    { AdminRecord(tags, n) :
        tags \in { <<>>, << [list |-> <<>>] >>, << [list |-> <<"t1">>] >>,
                   << [list |-> <<"t2">>] >>, << [list |-> <<"t1", "t2">>] >> },
        n \in 1..2 }

FilterOutcomes ==
    { [rows |-> r] : r \in SeqsUpTo(FilterRecords, MaxRecords) }
    \cup { StoreError, OtherError }

\* prescription_orders: none, one with and one without a drug name, two drugs
FilterPrescriptions ==
    PrescriptionLists
    \cup { << [drug_name |-> DrugA], [drug_name |-> DrugB] >>,
           << [drug_name |-> DrugB], [drug_name |-> DrugA] >> }

\* what the engine may answer when asked to select tags
FilterContents ==
    P32Contents
    \cup { [valid |-> [array |-> <<"t2">>]], [valid |-> [array |-> <<"t1", "t2">>]],
           [valid |-> [object |-> [t1 |-> TRUE]]] }

InitFilter ==
    /\ Idle
    /\ pc = "p32_call"
    /\ call_args \in [prescriptions : FilterPrescriptions, outcome : FilterOutcomes,
                      api : EngineApi(FilterContents)]
    /\ call_ret = <<>>

\* one call of retrieve_instructions_for_case; the store query and the
\* engine call it makes are recorded
RetrieveCall ==
    /\ pc = "p32_call"
    /\ LET r == RetrieveInstructionsForCase(call_args.prescriptions, call_args.outcome,
                                            call_args.api)
           raised == "raise" \in DOMAIN r
           call == [handler |-> "MySQLHandler.execute_query",
                    query |-> AdminText(call_args.prescriptions[1].drug_name),
                    outcome |-> call_args.outcome, by |-> "p3_2"]
       IN /\ calls' = IF raised \/ r.store THEN Append(calls, call) ELSE calls
          /\ engine_calls' =
                 IF ~raised /\ r.engine
                 THEN Append(engine_calls,
                             [stage |-> "p3_2", response |-> LLMGenerate(call_args.api)])
                 ELSE engine_calls
          /\ IF raised
             THEN Raise(r.raise) /\ UNCHANGED call_ret
             ELSE pc' = "p32_returned" /\ exc' = exc /\ call_ret' = r.ret
    /\ UNCHANGED << i, all_results, p1_tasks, j, all_queries, tasks_with_queries_map,
                    unique_queries, k, exec_all_results, p3_results, curated_tasks,
                    p3_2_instructions, p4_report, events, call_args >>

NextFilter == RetrieveCall

SpecFilter == InitFilter /\ [][NextFilter]_vars

\* ------------------------------------------------- claims on the filter
FilterReturned == pc = "p32_returned"

\* the rows the store answered with ([] for a store error)
FilterRows ==
    IF "rows" \in DOMAIN call_args.outcome THEN call_args.outcome.rows ELSE <<>>

\* the tags of a row's tags column
TagsOf(record) ==
    IF record.tags = <<>> THEN {} ELSE Range(record.tags[1].list)

AllTags == UNION { TagsOf(FilterRows[n]) : n \in DOMAIN FilterRows }

EngineResponse == engine_calls[1].response

\* the tags the engine selected: the items of the array (the keys of an object)
EngineSelected ==
    IF NotJson(EngineResponse) THEN {}
    ELSE IF "array" \in DOMAIN EngineResponse.json THEN Range(EngineResponse.json.array)
    ELSE IF "object" \in DOMAIN EngineResponse.json THEN DOMAIN EngineResponse.json.object
    ELSE {}

\* which of the conditions of the claim the call met
Condition ==
    IF calls = <<>> THEN "no drug"
    ELSE IF FilterRows = <<>> THEN "no records"
    ELSE IF AllTags = {} THEN "no tags"
    ELSE IF NotJson(EngineResponse) THEN "engine failure"
    ELSE IF EngineSelected = {} THEN "none selected"
    ELSE IF \A n \in DOMAIN FilterRows : TagsOf(FilterRows[n]) \cap EngineSelected = {}
    THEN "no intersection"
    ELSE "instructions"

OneRecord == [rows |-> << AdminRecord(<< [list |-> <<"t1">>] >>, 1) >>]

Answers(content) == [content |-> [valid |-> [array |-> content]]]

\* the string the function returns in each condition
StringOf(condition) ==
    CASE condition = "no records" ->
           RetrieveInstructionsForCase(<< [drug_name |-> DrugA] >>, [rows |-> <<>>],
                                       Answers(<<"t1">>)).ret
      [] condition = "no tags" ->
           RetrieveInstructionsForCase(<< [drug_name |-> DrugA] >>,
                                       [rows |-> << AdminRecord(<<>>, 1) >>],
                                       Answers(<<"t1">>)).ret
      [] condition = "engine failure" ->
           RetrieveInstructionsForCase(<< [drug_name |-> DrugA] >>, OneRecord,
                                       [content |-> [broken |-> "no json"]]).ret
      [] condition = "none selected" ->
           RetrieveInstructionsForCase(<< [drug_name |-> DrugA] >>, OneRecord,
                                       Answers(<<>>)).ret
      [] condition = "no intersection" ->
           RetrieveInstructionsForCase(<< [drug_name |-> DrugA] >>, OneRecord,
                                       Answers(<<"t3">>)).ret

AbsenceConditions ==
    {"no records", "no tags", "none selected", "no intersection", "engine failure"}

\* C21: the string retrieve_instructions_for_case returns is never empty,
\* and the string of an absence condition (no records, no tags, no selected
\* tags, no intersecting instruction) is not the string of any other absence
\* condition nor that of the engine failure.
C21_DistinctAbsenceStrings ==
    FilterReturned =>
        /\ call_ret # EmptyString
        /\ Condition \in AbsenceConditions =>
              \A other \in AbsenceConditions \ {Condition} : call_ret # StringOf(other)

\* the text a row is rendered as: the instruction and its summary
Rendered(record) ==
    [instruction_text |-> record.instruction_text, llm_summary |-> record.llm_summary]

Intersecting(record) ==
    engine_calls # <<>> /\ TagsOf(record) \cap EngineSelected # {}

OutputLines == IF "lines" \in DOMAIN call_ret THEN call_ret.lines ELSE <<>>

\* C27: the filter queries the store for the first prescription's drug only,
\* calls the engine at most once and only when the rows of that drug carry a
\* tag; the output holds the rendered text of exactly the rows whose tags
\* intersect the tags the engine selected, and no text twice.
C27_FilterByFirstDrugAndTags ==
    /\ Len(calls) <= 1
    /\ \A n \in DOMAIN calls :
          calls[n].query = AdminText(call_args.prescriptions[1].drug_name)
    /\ Len(engine_calls) <= 1
    /\ engine_calls # <<>> => AllTags # {}
    /\ FilterReturned =>
          /\ Range(OutputLines) =
                { Rendered(FilterRows[n]) :
                    n \in { m \in DOMAIN FilterRows : Intersecting(FilterRows[m]) } }
          /\ Len(OutputLines) = Cardinality(Range(OutputLines))

C27_Witness ==
    /\ FilterReturned
    /\ Len(call_args.prescriptions) = 2
    /\ Len(FilterRows) = 2
    /\ Intersecting(FilterRows[1])
    /\ Intersecting(FilterRows[2])
    /\ FilterRows[1] # FilterRows[2]
    /\ Len(OutputLines) = 1

\* ------------------------------------ claims on the curation of dosage rules
DosageReturned ==
    /\ Returned
    /\ HasFirstToken(call_args.task_data)
    /\ FirstToken(call_args.task_data) \in {"DOSAGE_OVER", "DOSE_ADJUSTMENT_MISSED"}

DosageRows == FlattenRows(call_args.evidence)

\* the patient's age, when the task gives one
KnownAge ==
    LET params == call_args.task_data.params
    IN IF "patient_info" \in DOMAIN params /\ "age" \in DOMAIN params.patient_info
       THEN << params.patient_info.age.num >>
       ELSE <<>>

\* the patient's age is below the rule's lower or above its upper bound
OutsideAgeBounds(rule) ==
    /\ KnownAge # <<>>
    /\ \/ rule.age_min_years # <<>> /\ rule.age_min_years[1] > KnownAge[1]
       \/ rule.age_max_years # <<>> /\ rule.age_max_years[1] < KnownAge[1]

Surviving == { n \in DOMAIN DosageRows : ~OutsideAgeBounds(DosageRows[n]) }

Min(a, b) == IF a < b THEN a ELSE b

\* C22: dosage curation answers "no rules found" exactly when the task's
\* statements gave no row, "no rules matched" exactly when there are rows and
\* the patient's age excludes every one, and otherwise a ranked list of
\* min(3, number of surviving rules) rules.
C22_DosageMessages ==
    DosageReturned =>
        /\ call_ret.msg = "dosage: no rules found" <=> DosageRows = <<>>
        /\ call_ret.msg = "dosage: no rules matched" <=>
              (DosageRows # <<>> /\ Surviving = {})
        /\ Surviving # {} =>
              /\ call_ret.msg = "dosage: ranked rules"
              /\ Len(call_ret.lines) = Min(3, Cardinality(Surviving))

\* C26: with the patient's age known, no rule whose age_min_years is above
\* or whose age_max_years is below that age is rendered, a bound of 0
\* included; with the age unknown no rule is left out for its age bounds.
C26_NoRuleOutsideAgeBounds ==
    (DosageReturned /\ "lines" \in DOMAIN call_ret) =>
        /\ \A n \in DOMAIN call_ret.lines : ~OutsideAgeBounds(call_ret.lines[n].rule)
        /\ KnownAge = <<>> => Len(call_ret.lines) = Min(3, Len(DosageRows))

\* the patient's recorded level of an organ, "unknown" without a record
RecordedLevel(organ) ==
    LET params == call_args.task_data.params
    IN IF "patient_info" \in DOMAIN params
          /\ "organ_function" \in DOMAIN params.patient_info
          /\ organ \in DOMAIN params.patient_info.organ_function
       THEN params.patient_info.organ_function[organ]
       ELSE LevelUnknown

Keywords ==
    LET params == call_args.task_data.params
    IN IF "context" \in DOMAIN params THEN params.context.diagnoses ELSE <<>>

Categories == Range(call_args.task_data.riskType.list)

IsSet(rule, column) == rule[column] # <<>> /\ rule[column][1] # ""

\* the score of the formula; bearing: the rule counts as impairment-bearing
FormulaScore(rule, bearing) ==
    LET renal == IsSet(rule, "renal_impairment")
        hepatic == IsSet(rule, "hepatic_impairment")
    IN (IF renal
        THEN (IF rule.renal_impairment[1] = RecordedLevel("renal_impairment")
              THEN 15 ELSE 0 - 5)
        ELSE 0)
     + (IF hepatic
        THEN (IF rule.hepatic_impairment[1] = RecordedLevel("hepatic_impairment")
              THEN 15 ELSE 0 - 5)
        ELSE 0)
     + (IF ~renal /\ ~hepatic
        THEN (IF RecordedLevel("renal_impairment") = LevelNone
                 /\ RecordedLevel("hepatic_impairment") = LevelNone THEN 5 ELSE 1)
        ELSE 0)
     + (IF \E n \in DOMAIN Keywords :
              IsSubstring(Keywords[n], rule.notes[1] \o rule.source_text[1])
        THEN 3 ELSE 0)
     + (IF "DOSE_ADJUSTMENT_MISSED" \in Categories /\ bearing THEN 10 ELSE 0)
     + (IF "DOSAGE_OVER" \in Categories /\ ~renal /\ ~hepatic THEN 5 ELSE 0)

RenderedRules == DosageReturned /\ "lines" \in DOMAIN call_ret

\* C25 as stated: every rendered rule has the score of the formula, where the
\* +10 of a missed-adjustment task goes only to rules that specify renal or
\* hepatic impairment.
C25_ScoreFormula ==
    RenderedRules =>
        \A n \in DOMAIN call_ret.lines :
            LET rule == call_ret.lines[n].rule
            IN call_ret.lines[n].score =
                  FormulaScore(rule, IsSet(rule, "renal_impairment")
                                     \/ IsSet(rule, "hepatic_impairment"))

\* C25 amended: every rendered rule has the score of the formula, where the
\* +10 of a missed-adjustment task goes to rules that specify renal
\* impairment, hepatic impairment or other_conditions.
C25_Amended ==
    RenderedRules =>
        \A n \in DOMAIN call_ret.lines :
            LET rule == call_ret.lines[n].rule
            IN call_ret.lines[n].score =
                  FormulaScore(rule, IsSet(rule, "renal_impairment")
                                     \/ IsSet(rule, "hepatic_impairment")
                                     \/ IsSet(rule, "other_conditions"))

C25_Witness ==
    /\ RenderedRules
    /\ "DOSE_ADJUSTMENT_MISSED" \in Categories
    /\ \E n \in DOMAIN call_ret.lines :
          /\ IsSet(call_ret.lines[n].rule, "other_conditions")
          /\ call_ret.lines[n].score = 11
    /\ \E n \in DOMAIN call_ret.lines :
          /\ IsSet(call_ret.lines[n].rule, "renal_impairment")
          /\ call_ret.lines[n].score = 25

\* ------------------------------- claims on the curation of interactions
InteractionReturned ==
    /\ Returned
    /\ HasFirstToken(call_args.task_data)
    /\ FirstToken(call_args.task_data) = "INTERACTION_DRUG_DRUG"
    /\ FlattenRows(call_args.evidence) # <<>>

\* the rule matches with `precipitant` as its precipitant and `target` as its
\* target or among its target examples, all by base name
MatchesDirection(rule, precipitant, target) ==
    LET examples == IF rule.affected_target_examples = <<>> THEN <<>>
                    ELSE rule.affected_target_examples[1].list
    IN /\ IsSubstring(GetBaseDrugName(precipitant),
                      GetBaseDrugName(rule.precipitant_drug_name[1]))
       /\ \/ IsSubstring(GetBaseDrugName(target),
                         GetBaseDrugName(rule.affected_target_name[1]))
          \/ \E n \in DOMAIN examples :
                IsSubstring(GetBaseDrugName(target), GetBaseDrugName(examples[n]))

MatchedLines == IF "lines" \in DOMAIN call_ret THEN call_ret.lines ELSE <<>>

\* C24: the rendered interactions are the rules that match in one of the two
\* directions (drug1 precipitant and drug2 target, or drug2 precipitant and
\* drug1 target), the second direction being tried whenever the first does
\* not match, and no rule is rendered twice.
C24_SymmetricMatch ==
    InteractionReturned =>
        LET rows == FlattenRows(call_args.evidence)
            pair == call_args.task_data.params.drug_pair
        IN /\ Range(MatchedLines) =
                 { rows[n] : n \in { m \in DOMAIN rows :
                                       \/ MatchesDirection(rows[m], pair[1], pair[2])
                                       \/ MatchesDirection(rows[m], pair[2], pair[1]) } }
           /\ Len(MatchedLines) = Cardinality(Range(MatchedLines))

\* ------------------------------------- claims on error descriptors as evidence
\* the mapping with every error descriptor replaced by an empty row list
ErrorsAsNoRows(evidence) ==
    [n \in DOMAIN evidence |->
        IF "rows" \in DOMAIN evidence[n].v THEN evidence[n]
        ELSE [k |-> evidence[n].k, v |-> [rows |-> <<>>]]]

\* what the call did: the text it attached or the exception it raised
Outcome ==
    IF pc = "raised" THEN [raise |-> exc] ELSE [text |-> call_ret]

\* C30: error descriptors contribute no rows in any curator branch: the call
\* on a mapping ends as the call on the same mapping with each error
\* descriptor replaced by an empty row list, so a task whose statements all
\* failed gets the text of the same task whose statements all gave zero rows.
C30_ErrorsContributeNoRows ==
    pc \in {"p31_returned", "raised"} =>
        Outcome = ProcessTask(call_args.task_data, ErrorsAsNoRows(call_args.evidence))

C30_Witness ==
    /\ Returned
    /\ Len(call_args.evidence) = 2
    /\ \A n \in DOMAIN call_args.evidence : "error" \in DOMAIN call_args.evidence[n].v
    /\ call_ret.msg = "dosage: no rules found"

\* ---------------------------- the statements of a contraindication task
\* the columns of contraindication_rules that a clause tests
ContraColumns ==
    {"age_min_years", "age_max_years", "sex", "weight_min_kg", "weight_max_kg",
     "renal_impairment", "hepatic_impairment", "pregnancy_status", "lactation_status",
     "other_conditions"}

\* rows of contraindication_rules as the loader writes them: the drug and
\* the columns that are not NULL (none, or one of them)
ContraTable ==
    { [drug_canonical_name |-> d, not_null |-> cols] :
        d \in {DrugA, DrugB}, cols \in {{}} \cup { {c} : c \in ContraColumns } }

\* the WHERE condition of a statement of lines 95-115 on a row (AND binds
\* tighter than OR)
Selects(text, row) ==
    LET drug == row.drug_canonical_name = text.drug
        Set(c) == c \in row.not_null
    IN CASE text.post = "'" -> drug
         [] text.post = "' AND (age_min_years IS NOT NULL OR age_max_years IS NOT NULL);" ->
              drug /\ (Set("age_min_years") \/ Set("age_max_years"))
         [] text.post = "' AND sex IS NOT NULL;" -> drug /\ Set("sex")
         [] text.post = "' AND weight_min_kg IS NOT NULL OR weight_max_kg IS NOT NULL;" ->
              (drug /\ Set("weight_min_kg")) \/ Set("weight_max_kg")
         [] text.post = "' AND renal_impairment IS NOT NULL;" ->
              drug /\ Set("renal_impairment")
         [] text.post = "' AND hepatic_impairment IS NOT NULL;" ->
              drug /\ Set("hepatic_impairment")
         [] text.post = "' AND pregnancy_status IS NOT NULL;" ->
              drug /\ Set("pregnancy_status")
         [] text.post = "' AND lactation_status IS NOT NULL;" ->
              drug /\ Set("lactation_status")
         [] text.post = "' AND other_conditions IS NOT NULL;" ->
              drug /\ Set("other_conditions")

\* the calls on a contraindication task with a drug name and patient data
ContraCalls ==
    { n \in DOMAIN call_ret :
        /\ IsContraTask(call_ret[n].task)
        /\ Get(ParamsOf(call_ret[n].task), "patient_info", EmptyDict) # EmptyDict }

PatientOf(n) == ParamsOf(call_ret[n].task).patient_info

HasClause(n, clause) ==
    \E m \in DOMAIN call_ret[n].plan :
        call_ret[n].plan[m] = Sql(ContraText(ParamsOf(call_ret[n].task).drug_name, clause))

\* the attribute is present with a value that is not empty
Present(patient, attribute) ==
    attribute \in DOMAIN patient /\ patient[attribute] # ""

\* the organ is present in organ_function with a level other than none
Impaired(patient, organ) ==
    /\ "organ_function" \in DOMAIN patient
    /\ organ \in DOMAIN patient.organ_function
    /\ patient.organ_function[organ] \notin {"", LevelNone}

\* C23: for a contraindication task with a drug name and a non-empty
\* patient_info, the clause of an attribute is in the plan exactly when the
\* attribute is present with a non-empty, clinically relevant value; an
\* attribute absent from patient_info or organ_function adds no clause; the
\* statements of the plan are pairwise different.
C23_ClauseIffAttribute ==
    \A n \in ContraCalls :
        LET patient == PatientOf(n)
            plan == call_ret[n].plan
        IN /\ HasClause(n, "' AND (age_min_years IS NOT NULL OR age_max_years IS NOT NULL);")
                <=> "age" \in DOMAIN patient
           /\ HasClause(n, "' AND sex IS NOT NULL;") <=> Present(patient, "gender")
           /\ HasClause(n, "' AND weight_min_kg IS NOT NULL OR weight_max_kg IS NOT NULL;")
                <=> "weight" \in DOMAIN patient
           /\ HasClause(n, "' AND renal_impairment IS NOT NULL;")
                <=> Impaired(patient, "renal_impairment")
           /\ HasClause(n, "' AND hepatic_impairment IS NOT NULL;")
                <=> Impaired(patient, "hepatic_impairment")
           /\ HasClause(n, "' AND pregnancy_status IS NOT NULL;")
                <=> (Present(patient, "pregnancy_status")
                     /\ patient.pregnancy_status \notin NotPregnant)
           /\ HasClause(n, "' AND lactation_status IS NOT NULL;")
                <=> (Present(patient, "lactation_status")
                     /\ patient.lactation_status \notin NotLactating)
           /\ \A a \in DOMAIN plan : \A b \in DOMAIN plan : a # b => plan[a] # plan[b]

\* C29: every statement planned for a contraindication task selects only
\* rows of contraindication_rules whose drug_canonical_name is the task's drug.
C29_OnlyRowsOfTheDrug ==
    \A n \in DOMAIN call_ret :
        IsContraTask(call_ret[n].task) =>
            \A m \in DOMAIN call_ret[n].plan : \A row \in ContraTable :
                Selects(call_ret[n].plan[m].query, row)
                   => row.drug_canonical_name = ParamsOf(call_ret[n].task).drug_name

\* ------------------------------------ planner and curator on one task
\* main, lines 112-118, on the task the planner was called on: the evidence
\* of the task's statements (no statement has rows) and process_task
CurateCall ==
    /\ pc = "p2_call"
    /\ call_ret # <<>>
    /\ LET plan == call_ret[Len(call_ret)].plan
           evidence == EvidenceFor(plan, <<>>)
           curated == ProcessTask(call_args, evidence)
       IN IF "raise" \in DOMAIN curated
          THEN Raise(curated.raise) /\ UNCHANGED curated_tasks
          ELSE /\ pc' = "p31_returned"
               /\ curated_tasks' = << [task_data |-> call_args, evidence |-> evidence,
                                       curated_evidence |-> curated.text] >>
               /\ UNCHANGED exc
    /\ UNCHANGED << call_args, call_ret >>
    /\ UNCHANGED << i, all_results, p1_tasks, j, all_queries, tasks_with_queries_map,
                    unique_queries, k, exec_all_results, p3_results, p3_2_instructions,
                    p4_report, calls, engine_calls, events >>

NextDispatch == PlanCall \/ CurateCall

SpecDispatch == InitPlan /\ [][NextDispatch]_vars

\* the task was planned with at least one statement and then curated
CuratedWithPlan ==
    /\ pc = "p31_returned"
    /\ call_ret[Len(call_ret)].plan # <<>>

\* C28: a task for which generate_queries_for_task returns a non-empty plan
\* is curated by the branch of its category, never by the generic "no rule
\* for this risk type" message, whatever the riskType list (a frequency or
\* route category first, a dosage marker in a later entry).
C28_PlannedTaskHasBranch ==
    CuratedWithPlan => curated_tasks[1].curated_evidence # GenericMessage
====
